---- MODULE Spec2Model ----
(***************************************************************************)
(* A model of the Tron bridge of hardhat-deploy: the provider              *)
(* (src/src/tron/provider.ts, TronWeb3Provider), the signer                *)
(* (src/src/tron/signer.ts, TronSigner) and the helpers of                 *)
(* src/src/tron/utils.ts.  The files hold several revisions of each class; *)
(* the model follows the most recent one of each (provider.ts 134-365,     *)
(* signer.ts 19-167).                                                      *)
(*                                                                         *)
(* Every async method is cut at its awaits: one action per stretch of code *)
(* that runs without suspension.  The ethers base classes, the TronWeb     *)
(* client and the node are the environment: their answers are drawn from   *)
(* small sets.                                                             *)
(***************************************************************************)
EXTENDS Integers, Sequences, FiniteSets, TLC

VARIABLES
    wt,         \* the wait closures built by _buildWait, one per call id
    signer,     \* TronWeb3Provider.signer: address -> the key of its TronSigner
    reqObj,     \* the caller's request object handed to TronSigner.sendTransaction
    op,         \* the submission in progress (sendTransaction, sendTrx, create)
    now,        \* Time.NOW, in milliseconds since the provider was constructed
    energyFactors,  \* TronSigner.energyFactors: address -> {time, value}
    gasPrice,   \* TronWeb3Provider.gasPrice: {time, value?}
    task,       \* the fee queries in progress, one per slot
    feeCalls,   \* how many fee queries have been started
    reg,        \* the TronSigner objects: which were built, which call returned which
    est,        \* the estimateGas call of the provider in progress
    tw,         \* the getTronWebTransaction calls of a signer
    factory     \* a TronContractFactory and the calls made on it

vars == <<wt, signer, reqObj, op, now, energyFactors, gasPrice, task,
          feeCalls, reg, est, tw, factory>>
waitVars == <<wt>>
sendVars == <<signer, reqObj, op>>
feeVars == <<now, energyFactors, gasPrice, task, feeCalls>>
regVars == <<reg>>
estVars == <<est>>
twVars == <<tw>>
facVars == <<factory>>

(***************************************************************************)
(* Time (utils.ts 31-50), in milliseconds.                                 *)
(***************************************************************************)
MILLISECOND == 1
SECOND == 1000 * MILLISECOND
MINUTE == 60 * SECOND

(***************************************************************************)
(* Bounds of the model.                                                    *)
(***************************************************************************)
MaxConf == 3        \* confirmation counts the node reports: 0..MaxConf
MaxTarget == 3      \* targetConfirmations handed to wait: 0..MaxTarget
MaxPolls == 4       \* polls one wait call is followed for
MaxLimbs == 10      \* BigNumber inputs have at most MaxLimbs limbs (< 1000^MaxLimbs)
MaxCalls == 2       \* submissions followed one after the other
MaxFeeCalls == 2    \* fee queries followed one after the other
MaxRegCalls == 3    \* addSigner and getSigner calls followed
MaxTwCalls == 2     \* getTronWebTransaction calls followed
MaxFacCalls == 2    \* calls made on a contract factory

(***************************************************************************)
(* JavaScript values.  undefined is the string "undefined"; an optional    *)
(* number is a record that says whether it was given; a hash is the pair   *)
(* of its hex digits and whether it carries the 0x prefix.                 *)
(***************************************************************************)
Undefined == "undefined"
NoNumber == [given |-> FALSE, n |-> 0]
Num(n) == [given |-> TRUE, n |-> n]

Hash(hex) == [hex |-> hex, prefixed |-> FALSE]

\* ensure0x (imported from ./utils, provider.ts 106): the hash with the 0x
\* prefix, added when it is not there.
ensure0x(h) == IF h.prefixed THEN h ELSE [h EXCEPT !.prefixed = TRUE]

Confs == 0..MaxConf
Targets == {NoNumber} \cup {Num(n) : n \in 0..MaxTarget}

\* The receipt status of ethers: 0 (failed), 1 (succeeded), or undefined.
Statuses == {"0", "1", Undefined}
Receipt(h, s) == [transactionHash |-> h, status |-> s]
NoReceipt == [transactionHash |-> Hash(""), status |-> "none"]
NoOutcome == [kind |-> "pending", receipt |-> NoReceipt]

(***************************************************************************)
(* BigNumber (ethers): a non-negative integer of any size, held as its     *)
(* limbs in base 1000, least significant first, without leading zero       *)
(* limbs; zero is the empty sequence.                                      *)
(***************************************************************************)
LimbBase == 10 * 10 * 10

RECURSIVE Big(_)
Big(n) == IF n = 0 THEN <<>> ELSE <<n % LimbBase>> \o Big(n \div LimbBase)

RECURSIVE BigNorm(_)
BigNorm(a) ==
    IF a = <<>> THEN a
    ELSE IF a[Len(a)] = 0 THEN BigNorm(SubSeq(a, 1, Len(a) - 1)) ELSE a

BigLt(a, b) ==
    \/ Len(a) < Len(b)
    \/ /\ Len(a) = Len(b)
       /\ \E i \in 1..Len(a) :
             a[i] < b[i] /\ \A j \in (i + 1)..Len(a) : a[j] = b[j]
BigGt(a, b) == BigLt(b, a)
BigLe(a, b) == ~BigLt(b, a)
BigGe(a, b) == ~BigLt(a, b)

RECURSIVE BigAddC(_, _, _)
BigAddC(a, b, carry) ==
    IF a = <<>> /\ b = <<>>
    THEN Big(carry)
    ELSE LET x == IF a = <<>> THEN 0 ELSE Head(a)
             y == IF b = <<>> THEN 0 ELSE Head(b)
             s == x + y + carry
         IN  <<s % LimbBase>>
                \o BigAddC(IF a = <<>> THEN a ELSE Tail(a),
                           IF b = <<>> THEN b ELSE Tail(b), s \div LimbBase)
BigAdd(a, b) == BigNorm(BigAddC(a, b, 0))

RECURSIVE BigMulLimb(_, _, _)
BigMulLimb(a, d, carry) ==
    IF a = <<>>
    THEN Big(carry)
    ELSE LET s == Head(a) * d + carry
         IN  <<s % LimbBase>> \o BigMulLimb(Tail(a), d, s \div LimbBase)

\* a * 1000^k.
BigShift(a, k) == IF a = <<>> THEN a ELSE [i \in 1..k |-> 0] \o a

RECURSIVE BigMul(_, _)
BigMul(a, b) ==
    IF b = <<>> THEN <<>>
    ELSE BigAdd(BigNorm(BigMulLimb(a, Head(b), 0)), BigShift(BigMul(a, Tail(b)), 1))

\* a.div(1000^k), BigNumber's truncating division by a power of the base:
\* the k low limbs are dropped.
BigDivLimbs(a, k) == IF Len(a) <= k THEN <<>> ELSE SubSeq(a, k + 1, Len(a))

\* Number.MAX_SAFE_INTEGER, 2^53 - 1: BigNumber.toNumber() throws a
\* NUMERIC_FAULT ("overflow") above it.
MaxSafeInteger == <<991, 740, 254, 199, 7, 9>>

(***************************************************************************)
(* _buildWait (provider.ts 323-342).                                       *)
(***************************************************************************)
\* A closure as _buildWait returns it: initialConfirmations and hash are
\* captured, nothing has run.
NewWait(initial, h) ==
    [pc |-> "idle", hash |-> h, initial |-> initial, target |-> NoNumber,
     curr |-> initial, sleeps |-> 0, polls |-> 0, sleptMs |-> 0,
     observed |-> <<>>, asked |-> <<>>, fetched |-> NoReceipt,
     outcome |-> NoOutcome]

\* JavaScript truthiness of targetConfirmations: undefined and 0 are falsy.
Truthy(target) == target.given /\ target.n # 0

\* The loop condition of line 328.
KeepWaitingShort(target, curr) == Truthy(target) /\ curr <= target.n
KeepWaiting(target, curr) == Truthy(target) /\ curr < target.n

\* A loop with a retry budget, which _buildWait does not have: after
\* MaxPolls polls it leaves the loop whatever the count is.
LoopHeadGivesUp(w, conf) ==
    IF KeepWaiting(w.target, conf) /\ w.polls < MaxPolls
    THEN [w EXCEPT !.pc = "sleeping", !.curr = conf,
                   !.observed = Append(@, conf),
                   !.sleeps = @ + 1, !.sleptMs = @ + SECOND]
    ELSE [w EXCEPT !.pc = "receipt", !.curr = conf,
                   !.observed = Append(@, conf),
                   !.asked = Append(@, [call |-> "getTransactionReceipt",
                                        hash |-> ensure0x(w.hash)])]

\* The head of the while loop, run with the count just observed: either
\* Time.sleep(Time.SECOND) is started (line 329) or the loop is left and
\* getTransactionReceipt(ensure0x(hash)) is issued (line 335).
LoopHead(w, conf) ==
    IF KeepWaiting(w.target, conf)
    THEN [w EXCEPT !.pc = "sleeping", !.curr = conf,
                   !.observed = Append(@, conf),
                   !.sleeps = @ + 1, !.sleptMs = @ + SECOND]
    ELSE [w EXCEPT !.pc = "receipt", !.curr = conf,
                   !.observed = Append(@, conf),
                   !.asked = Append(@, [call |-> "getTransactionReceipt",
                                        hash |-> ensure0x(w.hash)])]

\* A closure written as do ... while: it sleeps once before it looks at the
\* initial count at all.
WaitCallSleepsFirst(c, target) ==
    /\ UNCHANGED <<sendVars, feeVars, regVars, estVars, twVars, facVars>>
    /\ wt[c].pc = "idle"
    /\ wt' = [wt EXCEPT ![c].target = target, ![c].pc = "sleeping",
                        ![c].observed = Append(@, wt[c].initial),
                        ![c].sleeps = @ + 1, ![c].sleptMs = @ + SECOND]

\* wait(targetConfirmations) is called: curr_conf = initialConfirmations
\* (line 327), then the loop head.
WaitCall(c, target) ==
    /\ UNCHANGED <<sendVars, feeVars, regVars, estVars, twVars, facVars>>
    /\ wt[c].pc = "idle"
    /\ wt' = [wt EXCEPT ![c] = LoopHead([wt[c] EXCEPT !.target = target],
                                        wt[c].initial)]

\* The one-second timer fires: getTransaction(ensure0x(hash)) is issued
\* (lines 330-332).
WaitSleepDone(c) ==
    /\ UNCHANGED <<sendVars, feeVars, regVars, estVars, twVars, facVars>>
    /\ wt[c].pc = "sleeping"
    /\ wt[c].polls < MaxPolls
    /\ wt' = [wt EXCEPT ![c].pc = "polling", ![c].polls = @ + 1,
                        ![c].asked = Append(@, [call |-> "getTransaction",
                                                hash |-> ensure0x(wt[c].hash)])]

\* Closures that share one curr_conf: an answer to one call's poll is the
\* count every call in flight compares next.
WaitPollDoneShared(c, conf) ==
    /\ UNCHANGED <<sendVars, feeVars, regVars, estVars, twVars, facVars>>
    /\ wt[c].pc = "polling"
    /\ wt' = [d \in DOMAIN wt |->
                IF d = c THEN LoopHead(wt[c], conf)
                ELSE IF wt[d].pc \in {"sleeping", "polling"}
                     THEN [wt[d] EXCEPT !.curr = conf]
                     ELSE wt[d]]

\* getTransaction answers with a confirmation count: curr_conf = latest_conf
\* (line 333), then the loop head again.
WaitPollDone(c, conf) ==
    /\ UNCHANGED <<sendVars, feeVars, regVars, estVars, twVars, facVars>>
    /\ wt[c].pc = "polling"
    /\ wt' = [wt EXCEPT ![c] = LoopHead(wt[c], conf)]

\* getTransaction rejects, or answers null (the destructuring of line 330
\* throws): the closure's promise rejects with that error.
WaitPollFails(c, kind) ==
    /\ UNCHANGED <<sendVars, feeVars, regVars, estVars, twVars, facVars>>
    /\ wt[c].pc = "polling"
    /\ wt' = [wt EXCEPT ![c].pc = "done",
                        ![c].outcome = [kind |-> kind, receipt |-> NoReceipt]]

\* What the closure does with the receipt it fetched (lines 336-340).
SettleUnchecked(receipt) == [kind |-> "returned", receipt |-> receipt]
Settle(receipt) ==
    IF receipt.status = "0"
    THEN [kind |-> "TronTransactionFailedError", receipt |-> receipt]
    ELSE [kind |-> "returned", receipt |-> receipt]

\* getTransactionReceipt answers with a receipt.
WaitReceiptDone(c, status) ==
    /\ UNCHANGED <<sendVars, feeVars, regVars, estVars, twVars, facVars>>
    /\ wt[c].pc = "receipt"
    /\ LET receipt == Receipt(ensure0x(wt[c].hash), status)
       IN  wt' = [wt EXCEPT ![c].pc = "done", ![c].fetched = receipt,
                            ![c].outcome = Settle(receipt)]

\* getTransactionReceipt rejects, or answers null (line 336 throws).
WaitReceiptFails(c, kind) ==
    /\ UNCHANGED <<sendVars, feeVars, regVars, estVars, twVars, facVars>>
    /\ wt[c].pc = "receipt"
    /\ wt' = [wt EXCEPT ![c].pc = "done",
                        ![c].outcome = [kind |-> kind, receipt |-> NoReceipt]]

Failures == {"TypeError", "RpcError"}

WaitNext ==
    \/ \E c \in DOMAIN wt, target \in Targets : WaitCall(c, target)
    \/ \E c \in DOMAIN wt : WaitSleepDone(c)
    \/ \E c \in DOMAIN wt, conf \in Confs : WaitPollDone(c, conf)
    \/ \E c \in DOMAIN wt, kind \in Failures : WaitPollFails(c, kind)
    \/ \E c \in DOMAIN wt, status \in Statuses : WaitReceiptDone(c, status)
    \/ \E c \in DOMAIN wt, kind \in Failures : WaitReceiptFails(c, kind)

\* Several wait calls in flight on a chain whose confirmation counts do not
\* go down: an answer is never below the count the call saw last.  The
\* calls are made with no target or with the largest one, and a request
\* that fails is rejected by the node.
PairTargets == {NoNumber, Num(MaxTarget)}
WaitPairNext ==
    \/ \E c \in DOMAIN wt, target \in PairTargets : WaitCall(c, target)
    \/ \E c \in DOMAIN wt : WaitSleepDone(c)
    \/ \E c \in DOMAIN wt, conf \in Confs :
          conf >= wt[c].curr /\ WaitPollDone(c, conf)
    \/ \E c \in DOMAIN wt : WaitPollFails(c, "RpcError")
    \/ \E c \in DOMAIN wt, status \in Statuses : WaitReceiptDone(c, status)
    \/ \E c \in DOMAIN wt : WaitReceiptFails(c, "RpcError")

\* The same closure followed without an end.  The loop of lines 328-334 keeps
\* no count of its iterations and no deadline; sleeps, polls, sleptMs,
\* observed and asked are the observer's bookkeeping, not variables of the
\* closure.  Here the two counters stop counting at MaxPolls and the two
\* histories are dropped, so that the loop is a cycle of a finite graph and
\* may be taken any number of times.
Min(a, b) == IF a < b THEN a ELSE b
Capped(w) ==
    [w EXCEPT !.sleeps = Min(@, MaxPolls), !.polls = Min(@, MaxPolls),
              !.sleptMs = Min(w.sleeps, MaxPolls) * SECOND,
              !.observed = <<>>, !.asked = <<>>]

\* wait(targetConfirmations) is called (line 327, then the loop head).
LiveCall(c, target) ==
    /\ UNCHANGED <<sendVars, feeVars, regVars, estVars, twVars, facVars>>
    /\ wt[c].pc = "idle"
    /\ wt' = [wt EXCEPT ![c] = Capped(LoopHead([wt[c] EXCEPT !.target = target],
                                               wt[c].initial))]

\* The timer of Time.sleep(Time.SECOND) fires and getTransaction is issued
\* (lines 329-332); nothing in the closure limits how often.
LiveSleepDone(c) ==
    /\ UNCHANGED <<sendVars, feeVars, regVars, estVars, twVars, facVars>>
    /\ wt[c].pc = "sleeping"
    /\ wt' = [wt EXCEPT ![c] = Capped([wt[c] EXCEPT !.pc = "polling",
                                                     !.polls = @ + 1])]

\* getTransaction answers with a confirmation count (line 333), then the
\* loop head again.
LivePollDone(c, conf) ==
    /\ UNCHANGED <<sendVars, feeVars, regVars, estVars, twVars, facVars>>
    /\ wt[c].pc = "polling"
    /\ wt' = [wt EXCEPT ![c] = Capped(LoopHead(wt[c], conf))]

\* The pending getTransaction settles, one way or the other.
LivePollSettles(c) ==
    \/ \E conf \in Confs : LivePollDone(c, conf)
    \/ \E kind \in Failures : WaitPollFails(c, kind)

\* The pending getTransactionReceipt settles, one way or the other.
LiveReceiptSettles(c) ==
    \/ \E status \in Statuses : WaitReceiptDone(c, status)
    \/ \E kind \in Failures : WaitReceiptFails(c, kind)

WaitLiveNext ==
    \/ \E c \in DOMAIN wt, target \in Targets : LiveCall(c, target)
    \/ \E c \in DOMAIN wt : LiveSleepDone(c)
    \/ \E c \in DOMAIN wt, conf \in Confs : LivePollDone(c, conf)
    \/ \E c \in DOMAIN wt, kind \in Failures : WaitPollFails(c, kind)
    \/ \E c \in DOMAIN wt, status \in Statuses : WaitReceiptDone(c, status)
    \/ \E c \in DOMAIN wt, kind \in Failures : WaitReceiptFails(c, kind)

\* What the JavaScript runtime guarantees the closure once it is running: a
\* timer that was set fires (setTimeout of Time.sleep), and a request that
\* was issued settles, by an answer or by a rejection.
WaitFairness ==
    /\ WF_vars(LiveSleepDone(1))
    /\ WF_vars(LivePollSettles(1))
    /\ WF_vars(LiveReceiptSettles(1))


(***************************************************************************)
(* Accounts and native values.                                             *)
(***************************************************************************)
Keys == {"k1", "k2"}

\* new Wallet(pk).address: one address per key.
Address(pk) == IF pk = "k1" THEN "A1" ELSE "A2"
Addresses == {Address(pk) : pk \in Keys}

\* tronweb.address.toHex: the address in Tron's hex form, prefix 41.
toHex(a) == <<"41", a>>

\* The registry the constructor leaves for the account keys pks
\* (provider.ts 155-159): signer.set(addr, new TronSigner(.., pk, ..)).
Registry(pks) ==
    [a \in {Address(pk) : pk \in pks} |-> CHOOSE pk \in pks : Address(pk) = a]

\* JavaScript truthiness of an optional string.
TruthyStr(x) == x # Undefined /\ x # ""

\* An optional hex text, as the node's message field.
NoText == [given |-> FALSE, hex |-> <<>>]
Text(hex) == [given |-> TRUE, hex |-> hex]

\* Buffer.from(message, 'hex').toString() (utils.ts 16): every pair of hex
\* digits is one byte, a trailing single digit is dropped; the bytes here are
\* ASCII, which toString() leaves as they are.
RECURSIVE HexDecode(_)
HexDecode(hex) ==
    IF Len(hex) < 2 THEN <<>>
    ELSE <<16 * hex[1] + hex[2]>> \o HexDecode(SubSeq(hex, 3, Len(hex)))

\* The answers of trx.sendRawTransaction.  result is "absent" when the object
\* has no such field; the node's success answer carries the txid.
Responses ==
    {r \in [result : {"absent", "true", "false", "null"},
            code : {Undefined, "SIGERROR"},
            message : {NoText, Text(<<>>), Text(<<4, 15, 4, 11>>),
                       Text(<<4, 5, 7>>)},
            txid : {Undefined, "b2"}] :
        r.result = "true" => r.txid # Undefined}
NoResponse == [result |-> "none", code |-> Undefined, message |-> NoText,
               txid |-> Undefined]

\* !('result' in response) || !response.result  (signer.ts 73, provider.ts 303)
LacksResult(r) == r.result = "absent" \/ r.result \in {"false", "null"}

\* What a call ends with: a response with its wait closure, or an error.
NoResult == [kind |-> "pending", code |-> Undefined, message |-> <<>>,
             hash |-> Undefined, wait |-> NewWait(0, Hash(""))]
Failure(kind) == [NoResult EXCEPT !.kind = kind]

\* new TronWebError(response) (utils.ts 11-22).  Buffer.from throws a
\* TypeError when message is not a string: the constructor then throws that
\* TypeError and no TronWebError comes to exist.
TronWebError(r) ==
    IF ~r.message.given
    THEN Failure("TypeError")
    ELSE [NoResult EXCEPT !.kind = "TronWebError", !.code = r.code,
                          !.message = HexDecode(r.message.hex),
                          !.hash = r.txid]

(***************************************************************************)
(* The inputs of a submission.                                             *)
(***************************************************************************)
\* BigNumber values with one or two non-zero limbs.
ValueDigits == {1, 5, 100}
Values ==
    {<<>>}
    \cup {[i \in 1..p |-> IF i = p THEN d ELSE 0] :
            p \in 1..MaxLimbs, d \in ValueDigits}
    \cup {[i \in 1..p |-> IF i = p THEN d ELSE IF i = q THEN 1 ELSE 0] :
            p \in 2..MaxLimbs, q \in {1, 4}, d \in ValueDigits}

\* A signed transaction: what parseTransaction reads out of it, and the rest.
RawTxs ==
    [to : {Undefined} \cup Addresses, from : {Undefined} \cup Addresses,
     data : {Undefined, "0x", "0xa9059cbb"}, value : Values,
     signature : {"sig"}]
NoRaw == [to |-> Undefined, from |-> Undefined, data |-> Undefined,
          value |-> <<>>, signature |-> "none"]

\* parseTransaction(signedTransaction), the fields line 265 reads.
parseTransaction(raw) ==
    [to |-> raw.to, data |-> raw.data, from |-> raw.from, value |-> raw.value]

\* A request object handed to TronSigner.sendTransaction: "absent" is a
\* field the object does not have.
Requests ==
    [method : {"absent", Undefined, "create", "call"},
     data : {"absent", "0x6080"}, name : {"Token"}]
NoRequest == [method |-> "absent", data |-> "absent", name |-> "none"]

NoBuild == [fn |-> "none", to |-> <<"", "">>, amount |-> <<>>,
            from |-> <<"", "">>, tx |-> NoRequest]

IdleOp ==
    [pc |-> "idle", n |-> 0, entry |-> "none", path |-> "none",
     self |-> "none", raw |-> NoRaw, baseArg |-> NoRaw,
     from |-> Undefined, to |-> Undefined, value |-> <<>>,
     built |-> NoBuild, response |-> NoResponse, looked |-> Hash(""),
     log |-> <<>>, sleptMs |-> 0, outcome |-> NoResult]

\* A call may start when none is in progress.
CanStart == op.pc = "idle" /\ op.n < MaxCalls
Begin(entry) == [IdleOp EXCEPT !.n = op.n + 1, !.entry = entry]
Fail(o, kind) == [o EXCEPT !.pc = "done", !.outcome = Failure(kind)]

(***************************************************************************)
(* TronWeb3Provider.sendTransaction and sendTrx (provider.ts 260-310).     *)
(***************************************************************************)
TenPow9 == Big(1000000000)

\* Line 295: if (value.gt(10 ** 9)) value = value.div(10 ** 12); 10^12 is
\* 1000^4.
RescaleFromThreshold(value) ==
    IF BigGe(value, TenPow9) THEN BigDivLimbs(value, 4) ELSE value
RescaleByThousandCubed(value) ==
    IF BigGt(value, TenPow9) THEN BigDivLimbs(value, 3) ELSE value
Rescale(value) ==
    IF BigGt(value, TenPow9) THEN BigDivLimbs(value, 4) ELSE value

\* A sendTrx that looks the signer of from up before it asks the builder.
SendTrxEnterSignerFirst(o, from, to, value) ==
    LET amount == Rescale(value)
        p == [o EXCEPT !.path = "sendTrx", !.from = from, !.to = to,
                       !.value = value]
    IN  IF from \notin DOMAIN signer
        THEN Fail(p, "NoSigner")
        ELSE IF BigGt(amount, MaxSafeInteger)
        THEN Fail(p, "NumericFault")
        ELSE [p EXCEPT !.pc = "building", !.log = Append(@, "build"),
                       !.built = [fn |-> "sendTrx", to |-> toHex(to),
                                  amount |-> amount, from |-> toHex(from),
                                  tx |-> NoRequest]]

\* Lines 295-300: the arguments are evaluated, Math.floor(value.toNumber())
\* among them, and transactionBuilder.sendTrx is called.
SendTrxEnter(o, from, to, value) ==
    LET amount == Rescale(value)
        p == [o EXCEPT !.path = "sendTrx", !.from = from, !.to = to,
                       !.value = value]
    IN  IF BigGt(amount, MaxSafeInteger)
        THEN Fail(p, "NumericFault")
        ELSE [p EXCEPT !.pc = "building", !.log = Append(@, "build"),
                       !.built = [fn |-> "sendTrx", to |-> toHex(to),
                                  amount |-> amount, from |-> toHex(from),
                                  tx |-> NoRequest]]

\* Line 267: to && from && (!data || data == '0x').
IsTransferAnyData(tx) == TruthyStr(tx.to) /\ TruthyStr(tx.from)
IsTransfer(tx) ==
    /\ TruthyStr(tx.to)
    /\ TruthyStr(tx.from)
    /\ (~TruthyStr(tx.data) \/ tx.data = "0x")

\* sendTransaction(signedTransaction), lines 260-274.
ProviderSendTransaction ==
    /\ CanStart
    /\ \E raw \in RawTxs :
          LET tx == parseTransaction(raw)
              o == [Begin("Provider.sendTransaction") EXCEPT !.raw = raw]
          IN  op' = IF IsTransfer(tx)
                    THEN SendTrxEnter(o, tx.from, tx.to, tx.value)
                    ELSE [o EXCEPT !.pc = "done", !.path = "base",
                                   !.baseArg = raw, !.log = Append(@, "base"),
                                   !.outcome = Failure("base")]
    /\ UNCHANGED <<wt, signer, reqObj, feeVars, regVars, estVars, twVars, facVars>>

\* sendTrx(from, to, value) called directly.
SendTrx ==
    /\ CanStart
    /\ \E from \in Addresses, to \in Addresses, value \in Values :
          op' = SendTrxEnter(Begin("Provider.sendTrx"), from, to, value)
    /\ UNCHANGED <<wt, signer, reqObj, feeVars, regVars, estVars, twVars, facVars>>

(***************************************************************************)
(* TronSigner.sendTransaction and create (signer.ts 48-85).                *)
(***************************************************************************)
\* Lines 61-68: method and data are deleted from the caller's object, which
\* is handed to transactionBuilder.createSmartContract.
NotStripped(req) == req
Stripped(req) == [req EXCEPT !.method = "absent", !.data = "absent"]

CreateEnter(o, pk) ==
    [o EXCEPT !.path = "create", !.self = pk, !.pc = "building",
              !.log = Append(@, "build"),
              !.built = [fn |-> "createSmartContract", to |-> <<"", "">>,
                         amount |-> <<>>, from |-> toHex(Address(pk)),
                         tx |-> Stripped(reqObj)]]

\* 'method' in transaction (line 51) and case TronTxMethods.CREATE (line 53).
NeverTagged(req) == FALSE
HasMethod(req) == req.method # "absent"
AnyTagCreates(req) == TRUE
IsCreate(req) == req.method = "create"

\* sendTransaction(transaction) of the signer with key pk, lines 48-58.
SignerSendTransaction(pk) ==
    /\ CanStart
    /\ \E a \in DOMAIN signer : signer[a] = pk
    /\ LET o == [Begin("Signer.sendTransaction") EXCEPT !.self = pk]
       IN  IF ~HasMethod(reqObj)
           THEN /\ op' = [o EXCEPT !.pc = "done", !.path = "base",
                                   !.log = Append(@, "base"),
                                   !.outcome = Failure("base")]
                /\ UNCHANGED reqObj
           ELSE IF IsCreate(reqObj)
           THEN /\ op' = CreateEnter(o, pk)
                /\ reqObj' = Stripped(reqObj)
           ELSE /\ op' = Fail(o, "NotImplemented")
                /\ UNCHANGED reqObj
    /\ UNCHANGED <<wt, signer, feeVars, regVars, estVars, twVars, facVars>>

\* create(transaction) called directly.
Create(pk) ==
    /\ CanStart
    /\ \E a \in DOMAIN signer : signer[a] = pk
    /\ op' = CreateEnter(Begin("Signer.create"), pk)
    /\ reqObj' = Stripped(reqObj)
    /\ UNCHANGED <<wt, signer, feeVars, regVars, estVars, twVars, facVars>>

(***************************************************************************)
(* The steps sendTrx (provider.ts 301-309) and create (signer.ts 70-84)    *)
(* share.                                                                  *)
(***************************************************************************)
\* The builder answers with the unsigned transaction.  sendTrx looks the
\* signer of from up (getSigner, lines 226-229); create signs with its own
\* key.
BuilderAnswers ==
    /\ op.pc = "building"
    /\ op' = IF op.path = "sendTrx" /\ op.from \notin DOMAIN signer
             THEN Fail(op, "NoSigner")
             ELSE [op EXCEPT !.pc = "signing", !.log = Append(@, "sign")]
    /\ UNCHANGED <<wt, signer, reqObj, feeVars, regVars, estVars, twVars, facVars>>

\* trx.sign answers: trx.sendRawTransaction(signedTx) is called.
SignAnswers ==
    /\ op.pc = "signing"
    /\ op' = [op EXCEPT !.pc = "broadcasting", !.log = Append(@, "broadcast")]
    /\ UNCHANGED <<wt, signer, reqObj, feeVars, regVars, estVars, twVars, facVars>>

\* The builder, the signing or the broadcast call rejects.
NativeRejects ==
    /\ op.pc \in {"building", "signing", "broadcasting"}
    /\ op' = Fail(op, "NativeError")
    /\ UNCHANGED <<wt, signer, reqObj, feeVars, regVars, estVars, twVars, facVars>>

\* A submission that looks the transaction up as soon as the broadcast has
\* answered.
BroadcastAnswersNoSleep(r) ==
    /\ op.pc = "broadcasting"
    /\ op' = IF LacksResult(r)
             THEN [op EXCEPT !.pc = "done", !.response = r,
                             !.outcome = TronWebError(r)]
             ELSE [op EXCEPT !.pc = "lookup", !.response = r,
                             !.log = Append(@, "lookup"),
                             !.looked = ensure0x(Hash(r.txid))]
    /\ UNCHANGED <<wt, signer, reqObj, feeVars, regVars, estVars, twVars, facVars>>

\* The broadcast answers: the result check, then Time.sleep(5 * Time.SECOND).
BroadcastAnswers(r) ==
    /\ op.pc = "broadcasting"
    /\ op' = IF LacksResult(r)
             THEN [op EXCEPT !.pc = "done", !.response = r,
                             !.outcome = TronWebError(r)]
             ELSE [op EXCEPT !.pc = "sleeping", !.response = r,
                             !.log = Append(@, "sleep"),
                             !.sleptMs = @ + 5 * SECOND]
    /\ UNCHANGED <<wt, signer, reqObj, feeVars, regVars, estVars, twVars, facVars>>

\* The timer fires: getTransaction(ensure0x(response.txid)) is called.
GraceOver ==
    /\ op.pc = "sleeping"
    /\ op' = [op EXCEPT !.pc = "lookup", !.log = Append(@, "lookup"),
                        !.looked = ensure0x(Hash(op.response.txid))]
    /\ UNCHANGED <<wt, signer, reqObj, feeVars, regVars, estVars, twVars, facVars>>

\* getTransaction answers: txRes.wait = _buildWait(txRes.confirmations,
\* response.txid), and txRes is returned.
LookupAnswers(conf) ==
    /\ op.pc = "lookup"
    /\ op' = [op EXCEPT !.pc = "done", !.log = Append(@, "buildWait"),
                        !.outcome = [NoResult EXCEPT
                            !.kind = "response", !.hash = op.response.txid,
                            !.wait = NewWait(conf, Hash(op.response.txid))]]
    /\ UNCHANGED <<wt, signer, reqObj, feeVars, regVars, estVars, twVars, facVars>>

\* getTransaction rejects, or answers null (the assignment to txRes.wait
\* throws).
LookupFails(kind) ==
    /\ op.pc = "lookup"
    /\ op' = Fail(op, kind)
    /\ UNCHANGED <<wt, signer, reqObj, feeVars, regVars, estVars, twVars, facVars>>

\* The caller has taken the outcome of the call: nothing is in progress.
Settled ==
    /\ op.pc = "done"
    /\ op' = [IdleOp EXCEPT !.n = op.n]
    /\ UNCHANGED <<wt, signer, reqObj, feeVars, regVars, estVars, twVars, facVars>>

PipelineNext ==
    \/ Settled
    \/ BuilderAnswers
    \/ SignAnswers
    \/ NativeRejects
    \/ \E r \in Responses : BroadcastAnswers(r)
    \/ GraceOver
    \/ \E conf \in Confs : LookupAnswers(conf)
    \/ \E kind \in Failures : LookupFails(kind)

TrxNext ==
    \/ ProviderSendTransaction
    \/ SendTrx
    \/ PipelineNext

CreateNext ==
    \/ \E pk \in Keys : SignerSendTransaction(pk)
    \/ \E pk \in Keys : Create(pk)
    \/ PipelineNext

\* Submissions of both kinds on one provider: sendTrx, and a create request
\* submitted to the signer, possibly more than once.
SubmitNext ==
    \/ SendTrx
    \/ \E pk \in Keys : SignerSendTransaction(pk)
    \/ \E pk \in Keys : Create(pk)
    \/ PipelineNext

(***************************************************************************)
(* Fee estimation: TronSigner.getFeeLimit, getEnergyFactor (signer.ts      *)
(* 87-159) and TronWeb3Provider.getGasPrice (provider.ts 242-249).         *)
(*                                                                         *)
(* An energy factor is a JavaScript double; the model counts it in units   *)
(* of 1/10000, so that 12000 stands for 1.2 and 5 for 0.0005.  Times are   *)
(* milliseconds since the provider was constructed: the code only compares *)
(* differences of times.                                                   *)
(***************************************************************************)
FactorUnit == 10 * 1000
MAX_ENERGY_FACTOR == (12 * FactorUnit) \div 10      \* 1.2
MAX_ENERGY_DIVISOR == 1000
DEFAULT_ENERGY_PRICE == 1000

\* The JSON values the node may put at contract_state.energy_factor.
JsUndefined == [kind |-> "undefined", units |-> 0]
JsNull == [kind |-> "null", units |-> 0]
JsText == [kind |-> "string", units |-> 0]         \* a non-numeric string
JsNumber(u) == [kind |-> "number", units |-> u]

ReportedUnits == {0, 5, 10, 2000, MAX_ENERGY_FACTOR - 1, MAX_ENERGY_FACTOR,
                  34000}
ReportedFactors ==
    {JsUndefined, JsNull, JsText} \cup {JsNumber(u) : u \in ReportedUnits}

\* What wallet/getcontractinfo resolves to: nothing, an object without
\* contract_state, or one with it.
InfoResponses ==
    {[body |-> FALSE, state |-> FALSE, energy_factor |-> JsUndefined],
     [body |-> TRUE, state |-> FALSE, energy_factor |-> JsUndefined]}
    \cup {[body |-> TRUE, state |-> TRUE, energy_factor |-> v] :
             v \in ReportedFactors}
NoInfo == [body |-> FALSE, state |-> FALSE, energy_factor |-> JsUndefined]

\* res?.contract_state?.energy_factor
ReportedFactor(res) ==
    IF res.body /\ res.state THEN res.energy_factor ELSE JsUndefined

\* v < x of JavaScript for a number x: v is converted with ToNumber, null to
\* 0, undefined and a non-numeric string to NaN, which compares false.
JsLessThan(v, x) ==
    CASE v.kind = "number" -> v.units < x
      [] v.kind = "null" -> 0 < x
      [] OTHER -> FALSE

\* Number(v), where line 152 applies it.
JsToNumber(v) == IF v.kind = "number" THEN v.units ELSE 0

\* Lines 141 and 151-153.
IsSensible(v) == JsLessThan(v, MAX_ENERGY_FACTOR)
EnergyFactorOf(res) ==
    LET v == ReportedFactor(res)
    IN  IF IsSensible(v) THEN JsToNumber(v) ELSE MAX_ENERGY_FACTOR

\* Math.floor(factor * MAX_ENERGY_DIVISOR) for factor = 1 + f (lines 98-101).
\* The product is a double: for the factors listed in DoubleFallsShort it
\* lies just below the integer the exact product is (1.001 * 1000 is
\* 1000.9999999999999), for every other factor of the model the floor of the
\* double is the floor of the exact product.
DoubleFallsShort == {10}
FactorAdj(f) ==
    LET exact == ((FactorUnit + f) * MAX_ENERGY_DIVISOR) \div FactorUnit
    IN  IF f \in DoubleFallsShort THEN exact - 1 ELSE exact

\* energy_consumption.mul(enegyPrice).mul(factor_adj).div(MAX_ENERGY_DIVISOR),
\* lines 112-115; the divisor is one limb.
FeeLimitDividedFirst(c, p, adj) ==
    BigNorm(BigMulLimb(BigDivLimbs(BigMul(c, p), 1), adj, 0))
FeeLimitOf(c, p, adj) ==
    BigDivLimbs(BigNorm(BigMulLimb(BigMul(c, p), adj, 0)), 1)

\* hexlify(feeLimit), line 116: for a BigNumber its toHexString(), "0x"
\* followed by the hexadecimal digits, most significant first, padded to an
\* even number of digits, "0x00" for zero.  The model holds the digits.
RECURSIVE BigDivRem(_, _)
BigDivRem(a, d) ==
    IF a = <<>> THEN [q |-> <<>>, r |-> 0]
    ELSE LET hi == BigDivRem(Tail(a), d)
             cur == hi.r * LimbBase + Head(a)
         IN  [q |-> <<cur \div d>> \o hi.q, r |-> cur % d]

RECURSIVE HexDigits(_)
HexDigits(a) ==
    IF a = <<>> THEN <<>>
    ELSE LET dr == BigDivRem(a, 16)
         IN  Append(HexDigits(BigNorm(dr.q)), dr.r)

hexlify(a) ==
    LET d == HexDigits(a)
    IN  IF d = <<>> THEN <<0, 0>>
        ELSE IF Len(d) % 2 = 1 THEN <<0>> \o d ELSE d

\* this.tronweb.feeLimit, the maximum the TronWeb client is configured with
\* (150,000,000 sun unless set otherwise): the earlier revision of
\* getFeeLimit read it (signer.ts 257), the current one does not.
TronWebFeeLimit == Big(150000000)

\* The accounts a transaction may be sent to, and unsignedTx.to: a creation
\* has no to.
Contracts == {"T1", "T2"}
Destinations == {Undefined, ""} \cup Contracts
NoBig == [given |-> FALSE, v |-> <<>>]
SomeBig(a) == [given |-> TRUE, v |-> a]
Consumptions == {Big(3), Big(1000), Big(200000)}
GasLimits == {NoBig} \cup {SomeBig(c) : c \in Consumptions}
Prices == {NoBig, SomeBig(Big(420)), SomeBig(Big(1000))}
\* The instants the clock is read at: when the caches are built, when a gas
\* price of that time has expired and when an energy factor of that time has.
Instants == {0, 15 * SECOND, 10 * MINUTE}

IdleTask ==
    [pc |-> "idle", kind |-> "none", addr |-> "", gasLimit |-> NoBig,
     reported |-> NoInfo, informed |-> FALSE, cached |-> FALSE, factor |-> 0, adj |-> 0,
     consumption |-> <<>>, price |-> <<>>, fetched |-> NoBig, asked |-> <<>>,
     result |-> <<>>, outcome |-> "pending"]

Returns(t) == [t EXCEPT !.pc = "done", !.outcome = "returned"]
Throws(t) == [t EXCEPT !.pc = "done", !.outcome = "error"]
Asks(t, call) == [t EXCEPT !.pc = call, !.asked = Append(@, call)]

\* provider.ts 244-245: the cached price is served while it is younger than
\* 15 seconds; a BigNumber is truthy whatever its value.
GasPriceFreshUnvalued == gasPrice.time > now - 15 * SECOND
GasPriceFresh == gasPrice.time > now - 15 * SECOND /\ gasPrice.value.given

\* signer.ts 112-116, once the price is known.
AfterPrice(t, p) ==
    LET fee == FeeLimitOf(t.consumption, p, t.adj)
    IN  IF t.kind = "getGasPrice"
        THEN Returns([t EXCEPT !.price = p])
        ELSE Returns([t EXCEPT !.price = p, !.result = hexlify(fee)])

\* getEnergyPrice, lines 111 and 119-122, up to the provider's request.
GasPriceEnter(t) ==
    IF GasPriceFresh THEN AfterPrice(t, gasPrice.value.v)
    ELSE Asks(t, "eth_gasPrice")

\* Lines 102-111, once the consumption is known.
AfterConsumption(t, c) == GasPriceEnter([t EXCEPT !.consumption = c])

\* Lines 98-110, once getEnergyFactor has returned f.
AfterFactor(t, f) ==
    LET t1 == [t EXCEPT !.factor = f, !.adj = FactorAdj(f)]
    IN  IF t.kind = "getEnergyFactor" THEN Returns(t1)
        ELSE IF t.gasLimit.given THEN AfterConsumption(t1, t.gasLimit.v)
        ELSE Asks(t1, "estimateGas")

\* Lines 137-138 and 143.
CachedFreshAtTen(addr) ==
    /\ addr \in DOMAIN energyFactors
    /\ energyFactors[addr].time >= now - 10 * MINUTE
CachedFresh(addr) ==
    /\ addr \in DOMAIN energyFactors
    /\ energyFactors[addr].time > now - 10 * MINUTE
NeverACreation(addr) == FALSE
IsCreation(addr) == addr = ""

\* getEnergyFactor(contract_address), lines 137-148, up to the request.
EnergyFactorEnter(t) ==
    IF CachedFresh(t.addr)
    THEN AfterFactor([t EXCEPT !.cached = TRUE], energyFactors[t.addr].value)
    ELSE IF IsCreation(t.addr) THEN AfterFactor(t, MAX_ENERGY_FACTOR)
    ELSE Asks(t, "getcontractinfo")

CanQuery(i) == task[i].pc = "idle" /\ feeCalls < MaxFeeCalls

\* getFeeLimit(unsignedTx, overrides), lines 96-98: unsignedTx.to ?? ''.
GetFeeLimit(i) ==
    /\ CanQuery(i)
    /\ \E to \in Destinations, gasLimit \in GasLimits :
          task' = [task EXCEPT ![i] = EnergyFactorEnter(
                      [IdleTask EXCEPT
                          !.kind = "getFeeLimit",
                          !.addr = IF to = Undefined THEN "" ELSE to,
                          !.gasLimit = gasLimit])]
    /\ feeCalls' = feeCalls + 1
    /\ UNCHANGED <<waitVars, sendVars, regVars, estVars, twVars, facVars, now, energyFactors, gasPrice>>

\* getEnergyFactor(contract_address) called directly.
GetEnergyFactor(i) ==
    /\ CanQuery(i)
    /\ \E addr \in {""} \cup Contracts :
          task' = [task EXCEPT ![i] = EnergyFactorEnter(
                      [IdleTask EXCEPT !.kind = "getEnergyFactor",
                                       !.addr = addr])]
    /\ feeCalls' = feeCalls + 1
    /\ UNCHANGED <<waitVars, sendVars, regVars, estVars, twVars, facVars, now, energyFactors, gasPrice>>

\* getGasPrice() / getEnergyPrice() called directly.
GetGasPrice(i) ==
    /\ CanQuery(i)
    /\ task' = [task EXCEPT ![i] =
                   GasPriceEnter([IdleTask EXCEPT !.kind = "getGasPrice"])]
    /\ feeCalls' = feeCalls + 1
    /\ UNCHANGED <<waitVars, sendVars, regVars, estVars, twVars, facVars, now, energyFactors, gasPrice>>

\* wallet/getcontractinfo answers res: lines 151-158, and on in getFeeLimit.
ContractInfoAnswers(i, res) ==
    /\ task[i].pc = "getcontractinfo"
    /\ LET f == EnergyFactorOf(res)
           a == task[i].addr
       IN  /\ energyFactors' =
                 [x \in DOMAIN energyFactors \cup {a} |->
                     IF x = a THEN [time |-> now, value |-> f]
                     ELSE energyFactors[x]]
           /\ task' = [task EXCEPT ![i] =
                          AfterFactor([task[i] EXCEPT !.reported = res,
                                                       !.informed = TRUE], f)]
    /\ UNCHANGED <<waitVars, sendVars, regVars, estVars, twVars, facVars, now, gasPrice, feeCalls>>

\* estimateGas answers c: lines 106-111 and 128-132.
EstimateAnswers(i, c) ==
    /\ task[i].pc = "estimateGas"
    /\ task' = [task EXCEPT ![i] = AfterConsumption(task[i], c)]
    /\ UNCHANGED <<waitVars, sendVars, regVars, estVars, twVars, facVars, now, energyFactors, gasPrice,
                   feeCalls>>

\* A provider that keeps a price another call stored while this one was
\* waiting for its answer.
GasPriceAnswersFirstWins(i, p) ==
    /\ task[i].pc = "eth_gasPrice"
    /\ LET price == IF p.given THEN p.v ELSE Big(DEFAULT_ENERGY_PRICE)
       IN  /\ gasPrice' = IF GasPriceFresh THEN gasPrice
                          ELSE [time |-> now, value |-> SomeBig(price)]
           /\ task' = [task EXCEPT ![i] =
                          AfterPrice([task[i] EXCEPT !.fetched = p], price)]
    /\ UNCHANGED <<waitVars, sendVars, regVars, estVars, twVars, facVars, now, energyFactors, feeCalls>>

\* A provider that stores the fetched price without restamping the entry.
GasPriceAnswersUnstamped(i, p) ==
    /\ task[i].pc = "eth_gasPrice"
    /\ LET price == IF p.given THEN p.v ELSE Big(DEFAULT_ENERGY_PRICE)
       IN  /\ gasPrice' = [time |-> gasPrice.time, value |-> SomeBig(price)]
           /\ task' = [task EXCEPT ![i] =
                          AfterPrice([task[i] EXCEPT !.fetched = p], price)]
    /\ UNCHANGED <<waitVars, sendVars, regVars, estVars, twVars, facVars, now, energyFactors, feeCalls>>

\* The base provider's getGasPrice answers p, which may be null:
\* provider.ts 246-248.
GasPriceAnswers(i, p) ==
    /\ task[i].pc = "eth_gasPrice"
    /\ LET price == IF p.given THEN p.v ELSE Big(DEFAULT_ENERGY_PRICE)
       IN  /\ gasPrice' = [time |-> now, value |-> SomeBig(price)]
           /\ task' = [task EXCEPT ![i] =
                          AfterPrice([task[i] EXCEPT !.fetched = p], price)]
    /\ UNCHANGED <<waitVars, sendVars, regVars, estVars, twVars, facVars, now, energyFactors, feeCalls>>

\* A failure that is remembered: the entry asked about is stamped with the
\* time of the failure.
QueryRejectsStamped(i) ==
    /\ task[i].pc \in {"getcontractinfo", "estimateGas", "eth_gasPrice"}
    /\ task' = [task EXCEPT ![i] = Throws(task[i])]
    /\ gasPrice' = IF task[i].pc = "eth_gasPrice"
                   THEN [gasPrice EXCEPT !.time = now] ELSE gasPrice
    /\ energyFactors' =
          IF task[i].pc = "getcontractinfo"
          THEN [x \in DOMAIN energyFactors \cup {task[i].addr} |->
                   IF x = task[i].addr
                   THEN [time |-> now, value |-> MAX_ENERGY_FACTOR]
                   ELSE energyFactors[x]]
          ELSE energyFactors
    /\ UNCHANGED <<waitVars, sendVars, regVars, estVars, twVars, facVars, now, feeCalls>>

\* A request of the query rejects: the rejection is the query's, and no cache
\* is written.
QueryRejects(i) ==
    /\ task[i].pc \in {"getcontractinfo", "estimateGas", "eth_gasPrice"}
    /\ task' = [task EXCEPT ![i] = Throws(task[i])]
    /\ UNCHANGED <<waitVars, sendVars, regVars, estVars, twVars, facVars, now, energyFactors, gasPrice,
                   feeCalls>>

\* The caller has taken the outcome of the query.
QuerySettled(i) ==
    /\ task[i].pc = "done"
    /\ task' = [task EXCEPT ![i] = IdleTask]
    /\ UNCHANGED <<waitVars, sendVars, regVars, estVars, twVars, facVars, now, energyFactors, gasPrice,
                   feeCalls>>

\* Time passes.
Tick(t) ==
    /\ t > now
    /\ now' = t
    /\ UNCHANGED <<waitVars, sendVars, regVars, estVars, twVars, facVars, energyFactors, gasPrice, task, feeCalls>>

FeeNext ==
    \/ \E i \in DOMAIN task : GetFeeLimit(i)
    \/ \E i \in DOMAIN task : GetEnergyFactor(i)
    \/ \E i \in DOMAIN task : GetGasPrice(i)
    \/ \E i \in DOMAIN task, res \in InfoResponses : ContractInfoAnswers(i, res)
    \/ \E i \in DOMAIN task, c \in Consumptions : EstimateAnswers(i, c)
    \/ \E i \in DOMAIN task, p \in Prices : GasPriceAnswers(i, p)
    \/ \E i \in DOMAIN task : QueryRejects(i)
    \/ \E i \in DOMAIN task : QuerySettled(i)
    \/ \E t \in Instants : Tick(t)

(***************************************************************************)
(* The registry of signers: the constructor, addSigner and getSigner       *)
(* (provider.ts 141-195 and 223-231).  A TronSigner object is the number   *)
(* of the new TronSigner(...) that built it; reg.inst holds the object     *)
(* registered under each address, signer the key it was built with.        *)
(***************************************************************************)
\* config.accounts (HttpNetworkConfig): an array of private keys, the
\* descriptor of a mnemonic derivation, the string 'remote', or an object
\* without a mnemonic.
KeyLists == {<<>>} \cup {<<a>> : a \in Keys}
                   \cup {<<a, b>> : a \in Keys, b \in Keys}
NoAccounts == [shape |-> "none", keys |-> <<>>, initialIndex |-> 0]
Accounts ==
    {[shape |-> "array", keys |-> ks, initialIndex |-> 0] : ks \in KeyLists}
    \cup {[shape |-> "mnemonic", keys |-> <<>>, initialIndex |-> n] :
             n \in {0, 1}}
    \cup {[shape |-> "remote", keys |-> <<>>, initialIndex |-> 0],
          [shape |-> "object", keys |-> <<>>, initialIndex |-> 0]}

\* HDNode.fromMnemonic(..).derivePath(path/initialIndex).privateKey: one key
\* per index.
DerivedKey(n) == IF n = 0 THEN "k1" ELSE "k2"

Unbuilt ==
    [built |-> "no", accounts |-> NoAccounts, inst |-> <<>>, made |-> 0,
     log |-> <<>>]

\* this.signer.set(addr, new TronSigner(fullHost, headers, pk, this)) on the
\* pair r of the key map and the object record.
Enrol(r, pk) ==
    LET a == Address(pk)
        id == r.reg.made + 1
    IN  [signer |-> [x \in DOMAIN r.signer \cup {a} |->
                        IF x = a THEN pk ELSE r.signer[x]],
         reg |-> [r.reg EXCEPT
                     !.made = id,
                     !.inst = [x \in DOMAIN r.reg.inst \cup {a} |->
                                  IF x = a THEN id ELSE r.reg.inst[x]]]]

\* The loop of lines 156-159.
EnrolFirst(r, pks) == IF pks = <<>> THEN r ELSE Enrol(r, Head(pks))
RECURSIVE EnrolAll(_, _)
EnrolAll(r, pks) ==
    IF pks = <<>> THEN r ELSE EnrolAll(Enrol(r, Head(pks)), Tail(pks))

\* new TronWeb3Provider(provider, config, network), lines 146-176.
Construct(accounts) ==
    /\ reg.built = "no"
    /\ LET r0 == [signer |-> signer, reg |-> [reg EXCEPT !.accounts = accounts]]
           r == CASE accounts.shape = "array" -> EnrolAll(r0, accounts.keys)
                  [] accounts.shape = "mnemonic" ->
                         Enrol(r0, DerivedKey(accounts.initialIndex))
                  [] OTHER -> r0
           ok == accounts.shape \in {"array", "mnemonic"}
       IN  /\ signer' = r.signer
           /\ reg' = [r.reg EXCEPT !.built = IF ok THEN "yes" ELSE "failed"]
    /\ UNCHANGED <<waitVars, reqObj, op, feeVars, estVars, twVars, facVars>>

\* Line 191.
NeverRegistered(a) == FALSE
Registered(a) == a \in DOMAIN signer

CanCall == reg.built = "yes" /\ Len(reg.log) < MaxRegCalls
Logs(r, call) == [r EXCEPT !.log = Append(@, call)]

\* addSigner(pk), lines 189-195.
AddSigner(pk) ==
    /\ CanCall
    /\ LET a == Address(pk)
           r == IF Registered(a) THEN [signer |-> signer, reg |-> reg]
                ELSE Enrol([signer |-> signer, reg |-> reg], pk)
       IN  /\ signer' = r.signer
           /\ reg' = Logs(r.reg, [op |-> "addSigner", arg |-> pk,
                                  out |-> "returned", ret |-> r.reg.inst[a],
                                  size |-> Cardinality(DOMAIN r.reg.inst)])
    /\ UNCHANGED <<waitVars, reqObj, op, feeVars, estVars, twVars, facVars>>

\* Lines 226-227: this.signer.get(address) is an object.
FoundIfFirst(address) == address = "A1" /\ address \in DOMAIN signer
Found(address) == address \in DOMAIN signer

\* getSigner(address), lines 223-231.
GetSigner(address) ==
    /\ CanCall
    /\ reg' = Logs(reg, IF Found(address)
                        THEN [op |-> "getSigner", arg |-> address,
                              out |-> "returned", ret |-> reg.inst[address],
                              size |-> Cardinality(DOMAIN reg.inst)]
                        ELSE [op |-> "getSigner", arg |-> address,
                              out |-> "NoSigner", ret |-> 0,
                              size |-> Cardinality(DOMAIN reg.inst)])
    /\ UNCHANGED <<waitVars, sendVars, feeVars, estVars, twVars, facVars>>

\* The addresses getSigner is asked for: those of the keys, one of no key,
\* and none.
Lookups == Addresses \cup {"A3", Undefined}

RegistryNext ==
    \/ \E accounts \in Accounts : Construct(accounts)
    \/ \E pk \in Keys : AddSigner(pk)
    \/ \E address \in Lookups : GetSigner(address)

(***************************************************************************)
(* TronWeb3Provider.estimateGas (provider.ts 354-364).  A request object   *)
(* is the function from the names of its own fields to their values.       *)
(***************************************************************************)
Fields == {"type", "maxFeePerGas", "maxPriorityFeePerGas", "nonce",
           "to", "data", "gasPrice"}
FieldValue ==
    [f \in Fields |->
        CASE f = "type" -> "2"
          [] f = "maxFeePerGas" -> "0x77"
          [] f = "maxPriorityFeePerGas" -> "0x01"
          [] f = "nonce" -> "7"
          [] f = "to" -> "T1"
          [] f = "data" -> "0x6080"
          [] OTHER -> "0x1a4"]
TxRequests == {[f \in D |-> FieldValue[f]] : D \in SUBSET Fields}

\* delete transaction[field]
Delete(tx, field) == [f \in DOMAIN tx \ {field} |-> tx[f]]

RECURSIVE DeleteAll(_, _)
DeleteAll(tx, fields) ==
    IF fields = <<>> THEN tx
    ELSE DeleteAll(Delete(tx, Head(fields)), Tail(fields))

\* Line 359.
toDelFeesOnly == <<"type", "maxFeePerGas", "maxPriorityFeePerGas">>
toDel == <<"type", "maxFeePerGas", "maxPriorityFeePerGas", "nonce">>

IdleEst ==
    [pc |-> "idle", given |-> <<>>, tx |-> <<>>, received |-> <<>>,
     outcome |-> "pending", gas |-> <<>>]

\* estimateGas(transaction): the fields are deleted from the caller's object
\* and super.estimateGas is called with that object.
EstimateGas(tx) ==
    /\ est.pc = "idle"
    /\ LET stripped == DeleteAll(tx, toDel)
       IN  est' = [IdleEst EXCEPT !.pc = "base", !.given = tx,
                                  !.tx = stripped, !.received = stripped]
    /\ UNCHANGED <<waitVars, sendVars, feeVars, regVars, twVars, facVars>>

\* The base estimation answers.
BaseEstimateAnswers(c) ==
    /\ est.pc = "base"
    /\ est' = [est EXCEPT !.pc = "done", !.outcome = "returned", !.gas = c]
    /\ UNCHANGED <<waitVars, sendVars, feeVars, regVars, twVars, facVars>>

\* The base estimation rejects.
BaseEstimateRejects ==
    /\ est.pc = "base"
    /\ est' = [est EXCEPT !.pc = "done", !.outcome = "error"]
    /\ UNCHANGED <<waitVars, sendVars, feeVars, regVars, twVars, facVars>>

EstimateNext ==
    \/ \E tx \in TxRequests : EstimateGas(tx)
    \/ \E c \in Consumptions : BaseEstimateAnswers(c)
    \/ BaseEstimateRejects

(***************************************************************************)
(* TronSigner.getTronWebTransaction (signer.ts 161-166) and                *)
(* TronWebGetTransactionError (utils.ts 24-29).                            *)
(***************************************************************************)
TxHashes == {"a1", "b2"}

\* What tronweb.trx.getTransaction resolves to: a transaction, or an object
\* with an Error field; and what it rejects with when it throws.
NativeTransactions ==
    {[Error |-> "absent", txID |-> h, ret |-> r] :
        h \in TxHashes, r \in {"SUCCESS", "REVERT"}}
NativeErrorResults ==
    {[Error |-> e, txID |-> "absent", ret |-> "absent"] :
        e \in {"Transaction not found", "class org.tron.core.exception"}}
NativeResults == NativeTransactions \cup NativeErrorResults
NativeExceptions ==
    {[name |-> "string", message |-> "Transaction not found"],
     [name |-> "Error", message |-> "Network Error"]}
NoNative == [Error |-> "absent", txID |-> "absent", ret |-> "absent"]

\* new TronWebGetTransactionError(res): super(Error), name the class name.
TronWebGetTransactionError(res) ==
    [name |-> "TronWebGetTransactionError", message |-> res.Error]

NoError == [name |-> "none", message |-> ""]
IdleTw ==
    [pc |-> "idle", hash |-> "", log |-> <<>>]
TwDone(call) ==
    [tw EXCEPT !.pc = "idle", !.hash = "", !.log = Append(@, call)]

\* getTronWebTransaction(hash), up to the await of line 162.
GetTronWebTransaction(hash) ==
    /\ tw.pc = "idle"
    /\ Len(tw.log) < MaxTwCalls
    /\ tw' = [tw EXCEPT !.pc = "getTransaction", !.hash = hash]
    /\ UNCHANGED <<waitVars, sendVars, feeVars, regVars, estVars, facVars>>

\* Line 164: 'Error' in res.
HasError(res) == res.Error # "absent"

\* tronweb.trx.getTransaction resolves to res: lines 164-165.
NativeLookupAnswers(res) ==
    /\ tw.pc = "getTransaction"
    /\ tw' = TwDone(IF HasError(res)
                    THEN [hash |-> tw.hash, signal |-> "result", native |-> res,
                          thrown |-> NoError, outcome |-> "error",
                          error |-> TronWebGetTransactionError(res),
                          value |-> NoNative]
                    ELSE [hash |-> tw.hash, signal |-> "result", native |-> res,
                          thrown |-> NoError, outcome |-> "returned",
                          error |-> NoError, value |-> res])
    /\ UNCHANGED <<waitVars, sendVars, feeVars, regVars, estVars, facVars>>

\* tronweb.trx.getTransaction rejects with e: the await of line 162 throws
\* e, which nothing in the method catches.
NativeLookupThrows(e) ==
    /\ tw.pc = "getTransaction"
    /\ tw' = TwDone([hash |-> tw.hash, signal |-> "exception",
                     native |-> NoNative, thrown |-> e, outcome |-> "error",
                     error |-> e, value |-> NoNative])
    /\ UNCHANGED <<waitVars, sendVars, feeVars, regVars, estVars, facVars>>

LookupNext ==
    \/ \E hash \in TxHashes : GetTronWebTransaction(hash)
    \/ \E res \in NativeResults : NativeLookupAnswers(res)
    \/ \E e \in NativeExceptions : NativeLookupThrows(e)

\* The two caches alone, read at instants around both times to live.
CacheInstants ==
    {0, 1, 15 * SECOND - 1, 15 * SECOND, 15 * SECOND + 1,
     10 * MINUTE - 1, 10 * MINUTE, 10 * MINUTE + 1}

CacheNext ==
    \/ \E i \in DOMAIN task : GetEnergyFactor(i)
    \/ \E i \in DOMAIN task : GetGasPrice(i)
    \/ \E i \in DOMAIN task, res \in InfoResponses : ContractInfoAnswers(i, res)
    \/ \E i \in DOMAIN task, p \in Prices : GasPriceAnswers(i, p)
    \/ \E i \in DOMAIN task : QueryRejects(i)
    \/ \E i \in DOMAIN task : QuerySettled(i)
    \/ \E t \in CacheInstants : Tick(t)

\* Two cache reads in flight at once: each call is an async function of its
\* own, and nothing in either method waits for another call.
OverlapInstants == {0, 15 * SECOND - 1, 15 * SECOND, 10 * MINUTE}
OverlapNext ==
    \/ \E i \in DOMAIN task : GetEnergyFactor(i)
    \/ \E i \in DOMAIN task : GetGasPrice(i)
    \/ \E i \in DOMAIN task, res \in InfoResponses : ContractInfoAnswers(i, res)
    \/ \E i \in DOMAIN task, p \in Prices : GasPriceAnswers(i, p)
    \/ \E i \in DOMAIN task : QueryRejects(i)
    \/ \E i \in DOMAIN task : QuerySettled(i)
    \/ \E t \in OverlapInstants : Tick(t)

(***************************************************************************)
(* TronContractFactory (signer.ts 313-356).  Strings are sequences of       *)
(* characters, so that slice(2) is computed and not assumed.                *)
(***************************************************************************)
Ox == <<"0", "x">>

\* String.prototype.slice(n) for n >= 0.
sliceKeepsAll(str, n) == str
slice(str, n) == SubSeq(str, n + 1, Len(str))

\* The bytecode handed to the constructor, with or without its 0x.
Bytecodes == {<<"6", "0">>, <<"0", "x", "6", "0", "8", "0">>}

\* The interface's deploy fragment: the number of constructor inputs and
\* whether the constructor is payable.
Abis == [inputs : 0..2, payable : BOOLEAN]
ContractNames == {"", "Token"}

\* Constructor arguments, and the word each is encoded to (one byte here
\* for the 32 bytes of the ABI encoding).
ArgValues == {7, 42}
HexChars == <<"0", "1", "2", "3", "4", "5", "6", "7",
              "8", "9", "a", "b", "c", "d", "e", "f">>
Word(v) == <<HexChars[(v \div 16) + 1], HexChars[(v % 16) + 1]>>
ArgLists == {<<>>, <<7>>, <<42, 7>>, <<7, 42, 7>>}

\* The overrides object that may follow the arguments: its value field.
OverrideValues == {Num(0), Num(5)}
NoOverrides == [given |-> FALSE, value |-> NoNumber]
Overrides == {NoOverrides} \cup {[given |-> TRUE, value |-> v] : v \in OverrideValues}

\* this.interface.encodeDeploy(args): 0x and the words of the arguments.
RECURSIVE Words(_)
Words(args) == IF args = <<>> THEN <<>> ELSE Word(Head(args)) \o Words(Tail(args))
encodeDeploy(args) == Ox \o Words(args)

\* new TronContractFactory(abi, bytecode, signer, contractName), lines
\* 317-325: ContractFactory's constructor keeps the bytecode as a hex string
\* with its 0x, adding it when the argument has none.
\* The factory remembers, for the observer, how many calls were made on it
\* and the last of them.
NoFactoryCall ==
    [call |-> "none", args |-> <<>>, ov |-> NoOverrides, out |-> "none",
     tx |-> NoRequest]
NoFactory ==
    [built |-> FALSE, abi |-> [inputs |-> 0, payable |-> FALSE],
     bytecode |-> <<>>, contractName |-> "", calls |-> 0, last |-> NoFactoryCall]
TronContractFactory(abi, bytecode, contractName) ==
    [built |-> TRUE, abi |-> abi,
     bytecode |-> IF Len(bytecode) >= 2 /\ SubSeq(bytecode, 1, 2) = Ox
                  THEN bytecode ELSE Ox \o bytecode,
     contractName |-> contractName, calls |-> 0, last |-> NoFactoryCall]

default_originEnergyLimit == 10000000

\* super.getDeployTransaction(...args), line 334: ContractFactory checks the
\* argument count against the deploy fragment and refuses a non-zero value
\* for a constructor that is not payable; otherwise data is the bytecode
\* followed by the encoded arguments and value is the override's.
BaseAccepts(f, args, ov) ==
    /\ Len(args) = f.abi.inputs
    /\ Truthy(ov.value) => f.abi.payable
BaseDeployTransaction(f, args, ov) ==
    [data |-> f.bytecode \o slice(encodeDeploy(args), 2), value |-> ov.value]

\* The request of lines 338-353.
DeployRequest(f, args, ov) ==
    LET base == BaseDeployTransaction(f, args, ov)
        params == encodeDeploy(SubSeq(args, 1, Min(Len(args), f.abi.inputs)))
    IN  [feeLimit |-> NoNumber,
         callValue |-> IF Truthy(base.value) THEN base.value.n ELSE 0,
         userFeePercentage |-> 100,
         originEnergyLimit |-> default_originEnergyLimit,
         abi |-> f.abi,
         bytecode |-> slice(f.bytecode, 2),
         rawParameter |-> slice(params, 2),
         name |-> f.contractName,
         data |-> base.data,
         method |-> "create"]

CanAsk == factory.built /\ factory.calls < MaxFacCalls
Called(f, call) == [f EXCEPT !.calls = @ + 1, !.last = call]

\* getDeployTransaction(...args), lines 331-355: nothing is awaited, the
\* request is returned (or the base class's error is thrown) at once.
GetDeployTransaction(args, ov) ==
    /\ CanAsk
    /\ IF BaseAccepts(factory, args, ov)
       THEN LET tx == DeployRequest(factory, args, ov)
            IN  /\ factory' = Called(factory,
                       [call |-> "getDeployTransaction", args |-> args,
                        ov |-> ov, out |-> "returned", tx |-> tx])
                /\ reqObj' = tx
       ELSE /\ factory' = Called(factory,
                       [call |-> "getDeployTransaction", args |-> args,
                        ov |-> ov, out |-> "InvalidArgument",
                        tx |-> NoRequest])
            /\ UNCHANGED reqObj
    /\ UNCHANGED <<wt, signer, op, feeVars, regVars, estVars, twVars>>

\* ContractFactory.deploy of ethers, which the override replaces: the
\* request is built and sent through the signer.
DeployThroughSigner(args, ov) ==
    /\ CanAsk
    /\ op.pc = "idle"
    /\ BaseAccepts(factory, args, ov)
    /\ \E pk \in Keys :
          /\ \E a \in DOMAIN signer : signer[a] = pk
          /\ op' = CreateEnter(Begin("Signer.sendTransaction"), pk)
    /\ reqObj' = Stripped(DeployRequest(factory, args, ov))
    /\ factory' = Called(factory,
                       [call |-> "deploy", args |-> args, ov |-> ov,
                        out |-> "sent", tx |-> NoRequest])
    /\ UNCHANGED <<wt, signer, feeVars, regVars, estVars, twVars>>

\* deploy(...args), lines 327-329: the async function throws, so the promise
\* it returns is rejected; the arguments are not looked at.
Deploy(args, ov) ==
    /\ CanAsk
    /\ factory' = Called(factory,
                       [call |-> "deploy", args |-> args, ov |-> ov,
                        out |-> "NotImplemented", tx |-> NoRequest])
    /\ UNCHANGED <<wt, signer, reqObj, op, feeVars, regVars, estVars, twVars>>

FactoryNext ==
    \/ \E args \in ArgLists, ov \in Overrides : GetDeployTransaction(args, ov)
    \/ \E args \in ArgLists, ov \in Overrides : Deploy(args, ov)
    \/ \E pk \in Keys : SignerSendTransaction(pk)

(***************************************************************************)
(* The specifications.                                                     *)
(***************************************************************************)
\* The caches as the constructors leave them (provider.ts 137, signer.ts
\* 22): no energy factor, and a gas price entry without a value.
FeeInit ==
    /\ now = 0
    /\ energyFactors = <<>>
    /\ gasPrice = [time |-> 0, value |-> NoBig]
    /\ task = [i \in {1} |-> IdleTask]
    /\ feeCalls = 0
    /\ reg = [Unbuilt EXCEPT
                 !.built = "yes",
                 !.accounts = [shape |-> "array", keys |-> <<"k1">>,
                               initialIndex |-> 0],
                 !.inst = [a \in DOMAIN Registry({"k1"}) |-> 1],
                 !.made = 1]
    /\ est = IdleEst
    /\ tw = IdleTw
    /\ factory = NoFactory

\* One closure, built for transaction "a1" with any initial count.
WaitInit ==
    /\ \E initial \in Confs : wt = [c \in {1} |-> NewWait(initial, Hash("a1"))]
    /\ signer = Registry({"k1"})
    /\ reqObj = NoRequest
    /\ op = IdleOp
    /\ FeeInit

\* A provider constructed with accounts ["k1"], no call made yet.
TrxInit ==
    /\ wt = [c \in {1} |-> NewWait(0, Hash("a1"))]
    /\ signer = Registry({"k1"})
    /\ reqObj = NoRequest
    /\ op = IdleOp
    /\ FeeInit

\* The same provider, and a request object of any shape in the caller's hands.
CreateInit ==
    /\ wt = [c \in {1} |-> NewWait(0, Hash("a1"))]
    /\ signer = Registry({"k1"})
    /\ reqObj \in Requests
    /\ op = IdleOp
    /\ FeeInit

\* No provider constructed yet.
RegistryInit ==
    /\ wt = <<>>
    /\ signer = <<>>
    /\ reqObj = NoRequest
    /\ op = IdleOp
    /\ now = 0
    /\ energyFactors = <<>>
    /\ gasPrice = [time |-> 0, value |-> NoBig]
    /\ task = [i \in {1} |-> IdleTask]
    /\ feeCalls = 0
    /\ reg = Unbuilt
    /\ est = IdleEst
    /\ tw = IdleTw
    /\ factory = NoFactory

SpecWait == WaitInit /\ [][WaitNext]_vars
SpecWaitLive == WaitInit /\ [][WaitLiveNext]_vars /\ WaitFairness
SpecTrx == TrxInit /\ [][TrxNext]_vars
SpecCreate == CreateInit /\ [][CreateNext]_vars
SpecFee == TrxInit /\ [][FeeNext]_vars
SpecCache == TrxInit /\ [][CacheNext]_vars
SpecRegistry == RegistryInit /\ [][RegistryNext]_vars
SpecEstimate == TrxInit /\ [][EstimateNext]_vars
SpecLookup == TrxInit /\ [][LookupNext]_vars

\* A provider and a signer with empty caches and room for two calls at once.
OverlapInit ==
    /\ wt = [c \in {1} |-> NewWait(0, Hash("a1"))]
    /\ signer = Registry({"k1"})
    /\ reqObj = NoRequest
    /\ op = IdleOp
    /\ now = 0
    /\ energyFactors = <<>>
    /\ gasPrice = [time |-> 0, value |-> NoBig]
    /\ task = [i \in {1, 2} |-> IdleTask]
    /\ feeCalls = 0
    /\ reg = [Unbuilt EXCEPT
                 !.built = "yes",
                 !.accounts = [shape |-> "array", keys |-> <<"k1">>,
                               initialIndex |-> 0],
                 !.inst = [a \in DOMAIN Registry({"k1"}) |-> 1],
                 !.made = 1]
    /\ est = IdleEst
    /\ tw = IdleTw
    /\ factory = NoFactory
SpecOverlap == OverlapInit /\ [][OverlapNext]_vars

\* Two transactions in flight, each with the closure built for it.
WaitPairInit ==
    /\ wt = [c \in {1, 2} |->
                IF c = 1 THEN NewWait(0, Hash("a1")) ELSE NewWait(0, Hash("b2"))]
    /\ signer = Registry({"k1"})
    /\ reqObj = NoRequest
    /\ op = IdleOp
    /\ FeeInit
SpecWaitPair == WaitPairInit /\ [][WaitPairNext]_vars

\* A create request ready to be submitted to the signer of a provider.
SubmitInit ==
    /\ wt = [c \in {1} |-> NewWait(0, Hash("a1"))]
    /\ signer = Registry({"k1"})
    /\ reqObj \in {r \in Requests : r.method = "create"}
    /\ op = IdleOp
    /\ FeeInit
SpecSubmit == SubmitInit /\ [][SubmitNext]_vars

\* A factory constructed for a signer of the provider, no call made yet.
FactoryInit ==
    /\ wt = [c \in {1} |-> NewWait(0, Hash("a1"))]
    /\ signer = Registry({"k1"})
    /\ reqObj = NoRequest
    /\ op = IdleOp
    /\ now = 0
    /\ energyFactors = <<>>
    /\ gasPrice = [time |-> 0, value |-> NoBig]
    /\ task = [i \in {1} |-> IdleTask]
    /\ feeCalls = 0
    /\ reg = [Unbuilt EXCEPT
                 !.built = "yes",
                 !.accounts = [shape |-> "array", keys |-> <<"k1">>,
                               initialIndex |-> 0],
                 !.inst = [a \in DOMAIN Registry({"k1"}) |-> 1],
                 !.made = 1]
    /\ est = IdleEst
    /\ tw = IdleTw
    /\ \E abi \in Abis, bytecode \in Bytecodes, name \in ContractNames :
          factory = TronContractFactory(abi, bytecode, name)
SpecFactory == FactoryInit /\ [][FactoryNext]_vars

(***************************************************************************)
(* The claims.                                                             *)
(***************************************************************************)
\* The call of the closure has left its loop: the receipt was asked for.
ReceiptAsked(w) ==
    \E i \in 1..Len(w.asked) : w.asked[i].call = "getTransactionReceipt"

\* The position, counted from 0, of the first count of obs that has reached n.
FirstReached(obs, n) ==
    (CHOOSE i \in 1..Len(obs) :
        obs[i] >= n /\ \A j \in 1..(i - 1) : obs[j] < n) - 1

\* C1: a wait call with a target sleeps one second before every poll, so
\* that sleeps and polls are equal in number once the loop is left, and that
\* number is the position of the first observed count (the initial one at
\* position 0) that is at least the target; every sleep is one second long;
\* with the counts 0,1,1,3 and target 3 there are exactly 3 sleeps and the
\* receipt returned is the one asked for after the last poll.
C1_SleepsEqualPolls ==
    \A c \in DOMAIN wt :
        LET w == wt[c] IN
        /\ w.sleptMs = w.sleeps * SECOND
        /\ w.pc = "sleeping" => w.sleeps = w.polls + 1 /\ w.curr < w.target.n
        /\ w.pc = "polling" => w.sleeps = w.polls
        /\ ReceiptAsked(w) /\ Truthy(w.target) =>
               /\ w.sleeps = w.polls
               /\ \E i \in 1..Len(w.observed) : w.observed[i] >= w.target.n
               /\ w.sleeps = FirstReached(w.observed, w.target.n)
               /\ w.asked[Len(w.asked)].call = "getTransactionReceipt"
               /\ \A i \in 1..(Len(w.asked) - 1) :
                      w.asked[i].call = "getTransaction"
        /\ w.observed = <<0, 1, 1, 3>> /\ w.target = Num(3)
             /\ w.outcome.kind = "returned" =>
               /\ w.sleeps = 3
               /\ w.sleptMs = 3 * SECOND
               /\ w.outcome.receipt = w.fetched

C1_Witness ==
    \E c \in DOMAIN wt :
        /\ wt[c].observed = <<0, 1, 1, 3>>
        /\ wt[c].target = Num(3)
        /\ wt[c].pc = "done"
        /\ wt[c].outcome.kind = "returned"
        /\ wt[c].sleeps = 3

\* C2: a wait call never returns a receipt whose status is 0: when the
\* receipt it fetched has status 0 the call fails with
\* TronTransactionFailedError carrying that receipt.
C2_FailedReceiptThrows ==
    \A c \in DOMAIN wt :
        LET w == wt[c] IN
        /\ w.outcome.kind = "returned" => w.outcome.receipt.status # "0"
        /\ w.fetched # NoReceipt /\ w.fetched.status = "0" =>
               /\ w.outcome.kind = "TronTransactionFailedError"
               /\ w.outcome.receipt = w.fetched

C2_Witness ==
    \E c \in DOMAIN wt :
        /\ wt[c].pc = "done"
        /\ wt[c].fetched.status = "0"
        /\ wt[c].outcome.kind = "TronTransactionFailedError"

\* The text the hex digits of a message stand for, stated bytewise.
DecodesTo(text, hex) ==
    /\ Len(text) = Len(hex) \div 2
    /\ \A i \in 1..Len(text) : text[i] = 16 * hex[2 * i - 1] + hex[2 * i]

Logged(ev) == \E i \in 1..Len(op.log) : op.log[i] = ev

\* C3: in create and in sendTrx, whenever the broadcast response has no
\* truthy result field, whatever else it carries, the call fails with a
\* TronWebError carrying the response's code, its hex-decoded message and its
\* txid, and there is no grace sleep, no lookup and no response.
C3_BroadcastErrorWhateverFields ==
    op.response # NoResponse /\ op.response.result # "true" =>
        /\ op.pc = "done"
        /\ op.outcome.kind = "TronWebError"
        /\ op.outcome.code = op.response.code
        /\ op.outcome.hash = op.response.txid
        /\ DecodesTo(op.outcome.message, op.response.message.hex)
        /\ ~Logged("sleep") /\ ~Logged("lookup") /\ ~Logged("buildWait")
        /\ op.sleptMs = 0

\* C4: sendTransaction(signedTx) goes to sendTrx exactly when the decoded
\* transaction has no call data and both to and from; otherwise the signed
\* transaction goes as it is to the base sendTransaction and nothing is
\* handed to the native builder.
C4_TransferRouting ==
    op.entry = "Provider.sendTransaction" =>
        /\ op.path = "sendTrx" <=>
              /\ op.raw.data \in {Undefined, "", "0x"}
              /\ op.raw.to # Undefined
              /\ op.raw.from # Undefined
        /\ op.path = "sendTrx" =>
              /\ op.from = op.raw.from /\ op.to = op.raw.to
              /\ op.value = op.raw.value
              /\ op.baseArg = NoRaw /\ ~Logged("base")
        /\ op.path # "sendTrx" =>
              /\ op.path = "base"
              /\ op.baseArg = op.raw
              /\ op.built = NoBuild
              /\ op.log = <<"base">>

C4_Witness ==
    /\ op.entry = "Provider.sendTransaction"
    /\ op.raw.data = "0x"
    /\ op.path = "sendTrx"
    /\ op.built.fn = "sendTrx"

TenPow12 == BigMul(Big(1000000), Big(1000000))

\* C5: the amount sendTrx hands to the native builder is the value divided
\* by 10^12, truncated, when the value exceeds 10^9, and the value itself
\* when it is at most 10^9 (10^9 itself is not rescaled).
C5_RescaleAboveThreshold ==
    op.built.fn = "sendTrx" =>
        LET v == op.value
            a == op.built.amount
        IN  /\ BigGt(v, Big(1000000000)) =>
                  /\ BigLe(BigMul(a, TenPow12), v)
                  /\ BigLt(v, BigMul(BigAdd(a, Big(1)), TenPow12))
            /\ BigLe(v, Big(1000000000)) => a = v
            /\ v = Big(1000000000) => a = Big(1000000000)

C5_Witness ==
    /\ op.built.fn = "sendTrx"
    /\ BigGt(op.value, Big(1000000000))
    /\ op.built.amount = Big(5)
    /\ op.value # BigMul(Big(5), TenPow12)

FiveTenPow9 == BigMul(Big(5), Big(1000000000))

\* C6 as stated: sendTrx with value 5*10^9 hands the amount 5 to the native
\* builder, and with value 10^8 hands 10^8.
C6_FiveBillionGivesFive ==
    op.built.fn = "sendTrx" =>
        /\ op.value = FiveTenPow9 => op.built.amount = Big(5)
        /\ op.value = Big(100000000) => op.built.amount = Big(100000000)

\* C6 as amended: sendTrx with value 5*10^9 hands the amount 0 (5*10^9
\* exceeds 10^9, and 5*10^9 divided by 10^12 truncates to 0; it is the value
\* 5*10^12 that hands 5), and with value 10^8 hands 10^8 unchanged.
C6_FiveBillionGivesZero ==
    op.built.fn = "sendTrx" =>
        /\ op.value = FiveTenPow9 => op.built.amount = Big(0)
        /\ op.value = BigMul(Big(5), TenPow12) => op.built.amount = Big(5)
        /\ op.value = Big(100000000) => op.built.amount = Big(100000000)

C6_Witness ==
    /\ op.built.fn = "sendTrx"
    /\ op.value = FiveTenPow9
    /\ op.built.amount = Big(0)
    /\ op.pc = "building"

\* The number a hex string as hexlify writes it stands for.
RECURSIVE HexValue(_)
HexValue(h) ==
    IF h = <<>> THEN <<>>
    ELSE BigAdd(BigNorm(BigMulLimb(HexValue(SubSeq(h, 1, Len(h) - 1)), 16, 0)),
                Big(h[Len(h)]))

\* a <= x < a + unit, that is a = floor(x / unit) for a BigNumber unit.
IsFloorOf(a, x, unit) ==
    /\ BigLe(BigMul(a, unit), x)
    /\ BigLt(x, BigMul(BigAdd(a, Big(1)), unit))

FeeReturned(t) == t.kind = "getFeeLimit" /\ t.outcome = "returned"

C8_FeeLimitWithinNetworkMaximum ==
    \A i \in DOMAIN task :
        FeeReturned(task[i]) => BigLe(HexValue(task[i].result), TronWebFeeLimit)

\* The query of slot i has had the node's answer about its contract.
Informed(t) == t.informed /\ t.addr # ""

\* C9 as stated: once wallet/getcontractinfo has answered a query about a
\* non-empty address, the factor the query goes on with, which is the factor
\* cached for the address at the time of the answer, is the reported number
\* when that is a number strictly below the maximum, and the maximum for
\* everything else; it is never above the maximum.
C9_ClampedEnergyFactor ==
    \A i \in DOMAIN task :
        LET t == task[i]
            v == ReportedFactor(t.reported)
        IN
        Informed(t) =>
            /\ t.factor = IF v.kind = "number" /\ v.units < MAX_ENERGY_FACTOR
                          THEN v.units ELSE MAX_ENERGY_FACTOR
            /\ t.factor <= MAX_ENERGY_FACTOR
            /\ t.addr \in DOMAIN energyFactors

\* C10: a query for the empty address goes on with the maximum factor, has
\* neither asked wallet/getcontractinfo nor read the cache, and the cache
\* never holds an entry for the empty address.
C10_CreationGetsMaximum ==
    /\ "" \notin DOMAIN energyFactors
    /\ \A i \in DOMAIN task :
          LET t == task[i] IN
          t.kind \in {"getEnergyFactor", "getFeeLimit"} /\ t.addr = "" =>
              /\ t.factor = MAX_ENERGY_FACTOR
              /\ ~t.cached /\ ~t.informed
              /\ \A k \in 1..Len(t.asked) : t.asked[k] # "getcontractinfo"

\* C10, reached: getEnergyFactor('') has returned, ten minutes after the
\* construction and with factors of contracts in the cache.
C10_Witness ==
    \E i \in DOMAIN task :
        /\ task[i].kind = "getEnergyFactor"
        /\ task[i].addr = ""
        /\ task[i].outcome = "returned"
        /\ now = 10 * MINUTE
        /\ energyFactors # <<>>

\* C11: a getGasPrice call made while a value is cached and less than 15
\* seconds old returns that value at once, asks the underlying provider
\* nothing and leaves the cache alone; a call made before any value is
\* cached, or more than 15 seconds after the cached one, asks the underlying
\* provider; when that answers, the call returns the answer, or 1000 when
\* the answer is null, and the cache holds that value with the time of the
\* answer.
C11_GasPriceReadThrough ==
    [][\A i \in DOMAIN task :
         /\ task[i].pc = "idle" /\ task'[i].kind = "getGasPrice" =>
              /\ gasPrice' = gasPrice
              /\ gasPrice.value.given /\ now - gasPrice.time < 15 * SECOND =>
                    /\ task'[i].outcome = "returned"
                    /\ task'[i].price = gasPrice.value.v
                    /\ task'[i].asked = <<>>
              /\ ~gasPrice.value.given \/ now - gasPrice.time > 15 * SECOND =>
                    /\ task'[i].pc = "eth_gasPrice"
                    /\ task'[i].asked = <<"eth_gasPrice">>
         /\ task[i].kind = "getGasPrice" /\ task[i].pc = "eth_gasPrice"
               /\ task'[i].outcome = "returned" =>
              /\ task'[i].price = IF task'[i].fetched.given
                                  THEN task'[i].fetched.v ELSE Big(1000)
              /\ gasPrice' = [time |-> now, value |-> SomeBig(task'[i].price)]
      ]_vars

\* C11, reached: a getGasPrice call has returned without asking, the value
\* it read being 14.999 seconds old at most.
C11_Witness ==
    \E i \in DOMAIN task :
        /\ task[i].kind = "getGasPrice"
        /\ task[i].outcome = "returned"
        /\ task[i].asked = <<>>
        /\ gasPrice.time = 1
        /\ now = 15 * SECOND

\* C12: a getEnergyFactor call for a non-empty address whose entry is less
\* than 10 minutes old returns the stored factor at once, without a
\* contract-info call; with no entry, or one at least 10 minutes old, it
\* issues the call; when that answers, the factor returned is stored under
\* the address with the time of the answer; and no step changes or removes
\* the entry of an address other than the one an answer is for.
C12_EnergyFactorCachePerAddress ==
    [][/\ \A i \in DOMAIN task :
         /\ task[i].pc = "idle" /\ task'[i].kind = "getEnergyFactor"
               /\ task'[i].addr # "" =>
              LET a == task'[i].addr IN
              /\ energyFactors' = energyFactors
              /\ a \in DOMAIN energyFactors
                    /\ now - energyFactors[a].time < 10 * MINUTE =>
                    /\ task'[i].outcome = "returned"
                    /\ task'[i].factor = energyFactors[a].value
                    /\ task'[i].asked = <<>>
              /\ a \notin DOMAIN energyFactors
                    \/ now - energyFactors[a].time >= 10 * MINUTE =>
                    /\ task'[i].pc = "getcontractinfo"
                    /\ task'[i].asked = <<"getcontractinfo">>
         /\ task[i].kind = "getEnergyFactor" /\ task[i].pc = "getcontractinfo"
               /\ task'[i].outcome = "returned" =>
              /\ DOMAIN energyFactors' = DOMAIN energyFactors \cup {task[i].addr}
              /\ energyFactors'[task[i].addr] =
                     [time |-> now, value |-> task'[i].factor]
       /\ \A b \in DOMAIN energyFactors :
            /\ b \in DOMAIN energyFactors'
            /\ energyFactors'[b] # energyFactors[b] =>
                   \E i \in DOMAIN task :
                       task[i].pc = "getcontractinfo" /\ task[i].addr = b
      ]_vars

\* C12, reached: getEnergyFactor('T1') has returned the stored factor, which
\* was at most 1 millisecond short of 10 minutes old.
C12_Witness ==
    \E i \in DOMAIN task :
        /\ task[i].kind = "getEnergyFactor"
        /\ task[i].addr = "T1"
        /\ task[i].outcome = "returned"
        /\ task[i].cached
        /\ energyFactors["T1"].time = 1
        /\ now = 10 * MINUTE

\* The addSigner calls among the calls j..k of the log all have the key of
\* call j.
SameKeyBetween(L, j, k) ==
    \A x \in j..k : L[x].op = "addSigner" => L[x].arg = L[j].arg

\* C13: of two addSigner calls with the same key the later returns the
\* object the earlier returned, and the registry has the size the earlier
\* left when no addSigner with another key came between; the registry holds
\* one object per address, built with a key of that address, and no object
\* under two addresses.
C13_AddSignerIdempotent ==
    LET L == reg.log IN
    /\ \A j \in 1..Len(L), k \in 1..Len(L) :
          j < k /\ L[j].op = "addSigner" /\ L[k].op = "addSigner"
                /\ L[j].arg = L[k].arg =>
              /\ L[k].ret = L[j].ret
              /\ SameKeyBetween(L, j, k) => L[k].size = L[j].size
    /\ DOMAIN reg.inst = DOMAIN signer
    /\ \A a \in DOMAIN signer : Address(signer[a]) = a
    /\ \A a \in DOMAIN reg.inst, b \in DOMAIN reg.inst :
          reg.inst[a] = reg.inst[b] => a = b
    /\ \A j \in 1..Len(L) :
          L[j].op = "addSigner" =>
              L[j].out = "returned" /\ L[j].ret \in 1..reg.made

\* C13, reached: a provider built for the key k1 alone, addSigner("k2")
\* called twice in a row.
C13_Witness ==
    /\ reg.accounts.keys = <<"k1">>
    /\ Len(reg.log) >= 2
    /\ reg.log[1].op = "addSigner" /\ reg.log[1].arg = "k2"
    /\ reg.log[2].op = "addSigner" /\ reg.log[2].arg = "k2"

\* The call a step adds to the log is a getSigner call.
GetSignerStep ==
    /\ Len(reg'.log) = Len(reg.log) + 1
    /\ reg'.log[Len(reg'.log)].op = "getSigner"

\* C14: a getSigner call fails with the no-signer error exactly when the
\* registry has no object under the address; otherwise it returns the object
\* registered under the address; the registry is the same after the call.
C14_GetSignerLooksUp ==
    [][GetSignerStep =>
         LET call == reg'.log[Len(reg'.log)] IN
         /\ signer' = signer
         /\ reg'.inst = reg.inst /\ reg'.made = reg.made
         /\ call.out = "NoSigner" <=> call.arg \notin DOMAIN reg.inst
         /\ call.arg \in DOMAIN reg.inst =>
                call.out = "returned" /\ call.ret = reg.inst[call.arg]
         /\ call.out \in {"NoSigner", "returned"}
      ]_vars

\* C14, reached: on a provider built for k1, getSigner has failed for the
\* address of k2, addSigner("k2") was called, and getSigner has then
\* returned the object addSigner built.
C14_Witness ==
    /\ reg.accounts.keys = <<"k1">>
    /\ Len(reg.log) = 3
    /\ reg.log[1].op = "getSigner" /\ reg.log[1].arg = "A2"
    /\ reg.log[1].out = "NoSigner"
    /\ reg.log[2].op = "addSigner" /\ reg.log[2].arg = "k2"
    /\ reg.log[3].op = "getSigner" /\ reg.log[3].arg = "A2"
    /\ reg.log[3].ret = reg.log[2].ret

\* A step that starts a sendTransaction call of a signer.
SignerSendStep == op.pc = "idle" /\ op'.entry = "Signer.sendTransaction"

\* A native call or a base submission appears in the log of the call.
DidIO(o) == o.log # <<>>

\* C15: a sendTransaction call of a signer with a request that has a method
\* field other than create ends at once with the not-implemented error, with
\* nothing built, signed, broadcast or handed to the base path, and the
\* request untouched; such a call never does any of these later either.
C15_UnknownTagFailsWithoutIO ==
    /\ [][SignerSendStep /\ reqObj.method \notin {"absent", "create"} =>
             /\ op'.pc = "done"
             /\ op'.outcome = Failure("NotImplemented")
             /\ ~DidIO(op')
             /\ op'.path = "none" /\ op'.built = NoBuild
             /\ reqObj' = reqObj
        ]_vars
    /\ [](op.outcome.kind = "NotImplemented" => ~DidIO(op) /\ op.pc = "done")

\* C15, reached: sendTransaction has failed for a request tagged "call".
C15_Witness ==
    /\ op.entry = "Signer.sendTransaction"
    /\ reqObj.method = "call"
    /\ op.outcome.kind = "NotImplemented"

\* A call in the log of the submission.
Did(o, call) == \E k \in 1..Len(o.log) : o.log[k] = call

\* C16: a sendTransaction call of a signer with a request that has no
\* method field goes to the base submission and nowhere else; with the
\* method create it goes to create, which starts the native build; and no
\* call of a signer's sendTransaction ever has both the base submission and
\* a native call in its log.
C16_DispatchOnShape ==
    /\ [][SignerSendStep =>
             /\ reqObj.method = "absent" =>
                    /\ op'.path = "base" /\ op'.log = <<"base">>
                    /\ op'.built = NoBuild
                    /\ reqObj' = reqObj
             /\ reqObj.method = "create" =>
                    /\ op'.path = "create" /\ op'.log = <<"build">>
                    /\ op'.built.fn = "createSmartContract"
        ]_vars
    /\ [](op.entry = "Signer.sendTransaction" =>
             /\ op.path = "base" => op.log = <<"base">>
             /\ op.path = "create" => ~Did(op, "base")
             /\ Did(op, "base") => op.path = "base")

\* C16, reached: a request tagged create, handed to sendTransaction, was
\* built, signed and broadcast by create, and the call has returned its
\* response.
C16_Witness ==
    /\ op.entry = "Signer.sendTransaction"
    /\ op.path = "create"
    /\ op.log = <<"build", "sign", "broadcast", "sleep", "lookup", "buildWait">>
    /\ op.outcome.kind = "response"

\* C17: right after the constructor has run on an array of keys the
\* registry holds, under the address of every key of the array and under no
\* other, an object built with a key of that address; on a mnemonic
\* descriptor it holds exactly one object, that of the derived key; on any
\* other shape the constructor has thrown, nothing is registered and no call
\* is ever made on the provider.
C17_ConstructorRegisters ==
    LET acc == reg.accounts
        fresh == reg.built = "yes" /\ reg.log = <<>>
    IN
    /\ reg.built = "no" => signer = <<>>
    /\ fresh /\ acc.shape = "array" =>
          /\ DOMAIN signer =
                 {Address(acc.keys[k]) : k \in 1..Len(acc.keys)}
          /\ DOMAIN reg.inst = DOMAIN signer
          /\ \A a \in DOMAIN signer : Address(signer[a]) = a
          /\ \A a \in DOMAIN signer, b \in DOMAIN signer :
                reg.inst[a] = reg.inst[b] => a = b
    /\ fresh /\ acc.shape = "mnemonic" =>
          /\ Cardinality(DOMAIN signer) = 1
          /\ DOMAIN signer = {Address(DerivedKey(acc.initialIndex))}
          /\ \A a \in DOMAIN signer : signer[a] = DerivedKey(acc.initialIndex)
    /\ reg.built = "yes" => acc.shape \in {"array", "mnemonic"}
    /\ acc.shape \in {"remote", "object"} =>
          reg.built = "failed" /\ signer = <<>> /\ reg.log = <<>>

\* C17, reached: a provider constructed with the keys k1 and k2, no call
\* made on it yet.
C17_Witness ==
    /\ reg.built = "yes"
    /\ reg.accounts.keys = <<"k1", "k2">>
    /\ reg.log = <<>>

\* C18: once estimateGas has been called, the object the base estimation
\* received is the caller's object; it has none of the fields type,
\* maxFeePerGas, maxPriorityFeePerGas and nonce, and it has every other
\* field the caller passed, and no more, each with the value passed.
C18_EstimateGasStrips ==
    est.pc # "idle" =>
        /\ est.received = est.tx
        /\ DOMAIN est.received \cap
               {"type", "maxFeePerGas", "maxPriorityFeePerGas", "nonce"} = {}
        /\ DOMAIN est.received =
               DOMAIN est.given \
                  {"type", "maxFeePerGas", "maxPriorityFeePerGas", "nonce"}
        /\ \A f \in DOMAIN est.received : est.received[f] = est.given[f]

\* C18, reached: estimateGas has returned for a request that had all four
\* fields besides to and data.
C18_Witness ==
    /\ est.outcome = "returned"
    /\ DOMAIN est.given = {"type", "maxFeePerGas", "maxPriorityFeePerGas",
                           "nonce", "to", "data"}

\* C19 as stated: a getTronWebTransaction call whose native lookup threw, or
\* resolved to a result with an Error field, fails with a
\* TronWebGetTransactionError; two calls that met the same failure text, one
\* as an exception and one as an Error field, fail with the same error; and
\* a result without an Error field is returned as it is.
C19_LookupFailuresNormalized ==
    LET L == tw.log IN
    /\ \A k \in 1..Len(L) :
          /\ L[k].signal = "exception" \/ L[k].native.Error # "absent" =>
                 /\ L[k].outcome = "error"
                 /\ L[k].error.name = "TronWebGetTransactionError"
          /\ L[k].signal = "result" /\ L[k].native.Error = "absent" =>
                 L[k].outcome = "returned" /\ L[k].value = L[k].native
    /\ \A j \in 1..Len(L), k \in 1..Len(L) :
          L[j].signal = "exception" /\ L[k].signal = "result"
                /\ L[j].thrown.message = L[k].native.Error =>
              L[j].error = L[k].error

\* The closure of the live specification, once wait has been called with a
\* target that makes it poll: the count it last saw has reached the target,
\* or it is below the target and no request of the closure has failed.
CountReached ==
    /\ wt[1].pc # "idle"
    /\ Truthy(wt[1].target)
    /\ wt[1].curr >= wt[1].target.n
CountBelow ==
    /\ wt[1].pc # "idle"
    /\ Truthy(wt[1].target)
    /\ wt[1].curr < wt[1].target.n
    /\ wt[1].outcome = NoOutcome

\* C20: wait has no upper bound on polling.  Once a polled count has
\* reached the target the receipt request is out or answered, and the call
\* completes; while the counts stay below the target the closure is
\* sleeping or polling with no receipt fetched, however many polls it has
\* made, and if they stay below for ever it sleeps again and polls again
\* for ever.
C20_PollsWithoutBound ==
    /\ [](CountReached => wt[1].pc \in {"receipt", "done"})
    /\ (CountReached ~> (wt[1].pc = "done"))
    /\ [](CountBelow => /\ wt[1].pc \in {"sleeping", "polling"}
                        /\ wt[1].fetched = NoReceipt)
    /\ (<>[]CountBelow => /\ []<>(wt[1].pc = "sleeping")
                          /\ []<>(wt[1].pc = "polling"))

\* C20 witness: the closure has polled as often as the bookkeeping counts,
\* the count is still below the target, and it is sleeping once more.
C20_Witness ==
    /\ wt[1].pc = "sleeping"
    /\ wt[1].polls = MaxPolls
    /\ wt[1].target = Num(MaxTarget)
    /\ wt[1].curr < MaxTarget


\* C21: a wait call with no target (or a falsy one), or one whose initial
\* count is already at least the target, never sleeps and never polls: its
\* one request is getTransactionReceipt for the closure's hash, issued on
\* the call itself with only the initial count looked at.
C21_NoPollWhenSufficient ==
    \A c \in DOMAIN wt :
        LET w == wt[c] IN
        w.pc # "idle" /\ (~w.target.given \/ w.initial >= w.target.n) =>
            /\ w.pc \in {"receipt", "done"}
            /\ w.sleeps = 0 /\ w.polls = 0 /\ w.sleptMs = 0
            /\ w.observed = <<w.initial>>
            /\ w.asked = <<[call |-> "getTransactionReceipt",
                            hash |-> ensure0x(w.hash)]>>

C21_Witness ==
    \E c \in DOMAIN wt :
        /\ wt[c].target = Num(2) /\ wt[c].initial = 3
        /\ wt[c].pc = "done" /\ wt[c].outcome.kind = "returned"
        /\ wt[c].sleeps = 0 /\ wt[c].polls = 0


\* The calls made on the factory so far.
FactoryCalls == {factory.last}
HasNoPrefix(str) == Len(str) < 2 \/ SubSeq(str, 1, 2) # Ox

\* C22 as stated: every request getDeployTransaction returns has the create
\* tag, a fee limit of zero, fee percentage 100, the default origin energy
\* limit, and bytecode and parameters without 0x.
C22_DeployRequestZeroFeeLimit ==
    \A e \in FactoryCalls :
        e.call = "getDeployTransaction" /\ e.out = "returned" =>
            /\ e.tx.method = "create"
            /\ e.tx.feeLimit = Num(0)

\* C22: for arguments that match the constructor, getDeployTransaction
\* returns a request with the create tag, an undefined fee limit, fee
\* percentage 100, the default origin energy limit, the factory's bytecode
\* and the encoded arguments both without their 0x, the override's value
\* (0 without one), the ABI and the name; Signer.sendTransaction takes the
\* create branch for it.
C22_DeployRequestFields ==
    \A e \in FactoryCalls :
        /\ e.call = "getDeployTransaction" =>
             (e.out = "returned" <=> Len(e.args) = factory.abi.inputs
                                     /\ (Truthy(e.ov.value) => factory.abi.payable))
        /\ e.call = "getDeployTransaction" /\ e.out = "returned" =>
            /\ e.tx.method = "create"
            /\ HasMethod(e.tx) /\ IsCreate(e.tx)
            /\ e.tx.feeLimit = NoNumber
            /\ e.tx.userFeePercentage = 100
            /\ e.tx.originEnergyLimit = default_originEnergyLimit
            /\ Ox \o e.tx.bytecode = factory.bytecode
            /\ HasNoPrefix(e.tx.bytecode)
            /\ e.tx.rawParameter = Words(e.args)
            /\ HasNoPrefix(e.tx.rawParameter)
            /\ e.tx.callValue = (IF e.ov.value.given THEN e.ov.value.n ELSE 0)
            /\ e.tx.abi = factory.abi
            /\ e.tx.name = factory.contractName

\* C22 witness: a request built from two arguments and a value has been
\* sent through the signer and went the create way.
C22_Witness ==
    /\ \E e \in FactoryCalls :
          /\ e.call = "getDeployTransaction" /\ e.out = "returned"
          /\ Len(e.args) = 2 /\ e.ov.value = Num(5)
          /\ e.tx.rawParameter = <<"2", "a", "0", "7">>
          /\ e.tx.bytecode = <<"6", "0", "8", "0">>
    /\ op.path = "create"
    /\ op.entry = "Signer.sendTransaction"


\* A call was made on the factory in this step.
FactoryStep(call) ==
    /\ factory'.calls = factory.calls + 1
    /\ factory'.last.call = call

\* C23: deploy on the factory, whatever its arguments, fails with the
\* not-implemented error and does nothing else: no native build, signature
\* or broadcast is started, and no request is made or changed.
C23_DeployNotImplemented ==
    [][FactoryStep("deploy") =>
          /\ factory'.last.out = "NotImplemented"
          /\ op' = op
          /\ reqObj' = reqObj
          /\ wt' = wt /\ signer' = signer]_vars

\* C23 witness: deploy was called with matching arguments on a factory
\* whose signer has sent nothing, and failed.
C23_Witness ==
    /\ factory.last.call = "deploy"
    /\ factory.last.out = "NotImplemented"
    /\ Len(factory.last.args) = factory.abi.inputs
    /\ factory.abi.inputs = 2
    /\ op = IdleOp


\* Steps of a cache read i: the call itself, a call that returns without a
\* request, and the answer of the one request a call makes.
CallStep(i) == task[i].pc = "idle" /\ task'[i].pc # "idle"
ReturnedAtOnce(i) ==
    CallStep(i) /\ task'[i].pc = "done" /\ task'[i].outcome = "returned"
AnswerStep(i) ==
    /\ task[i].pc \in {"eth_gasPrice", "getcontractinfo"}
    /\ task'[i].pc = "done" /\ task'[i].outcome = "returned"

\* What call i returned is the cache's value, the entry is younger than its
\* time to live at that moment, and the caches are as they were.
ServedFromCache(i) ==
    /\ gasPrice' = gasPrice /\ energyFactors' = energyFactors
    /\ task'[i].asked = <<>>
    /\ IF task'[i].kind = "getGasPrice"
       THEN /\ gasPrice.value.given
            /\ task'[i].price = gasPrice.value.v
            /\ now - gasPrice.time < 15 * SECOND
       ELSE /\ task'[i].addr \in DOMAIN energyFactors
            /\ task'[i].factor = energyFactors[task'[i].addr].value
            /\ now - energyFactors[task'[i].addr].time < 10 * MINUTE

\* getEnergyFactor('') returns the maximum factor; no cache is read for it
\* or written.
CreationDefault(i) ==
    /\ gasPrice' = gasPrice /\ energyFactors' = energyFactors
    /\ task'[i].asked = <<>>
    /\ task'[i].kind = "getEnergyFactor"
    /\ task'[i].addr = ""
    /\ task'[i].addr \notin DOMAIN energyFactors
    /\ task'[i].factor = MAX_ENERGY_FACTOR

\* Call i found nothing fresh and made its one request.
WentToFetch(i) ==
    /\ gasPrice' = gasPrice /\ energyFactors' = energyFactors
    /\ IF task'[i].kind = "getGasPrice"
       THEN /\ task'[i].asked = <<"eth_gasPrice">>
            /\ ~(gasPrice.value.given /\ now - gasPrice.time < 15 * SECOND)
       ELSE /\ task'[i].asked = <<"getcontractinfo">>
            /\ ~(/\ task'[i].addr \in DOMAIN energyFactors
                 /\ now - energyFactors[task'[i].addr].time < 10 * MINUTE)

\* The answer of call i's request is what the call returns (the default
\* price for an empty answer) and is the cache entry from now on, stamped
\* with the present time.
StoredFresh(i) ==
    IF task'[i].kind = "getGasPrice"
    THEN /\ task'[i].price = (IF task'[i].fetched.given THEN task'[i].fetched.v
                              ELSE Big(DEFAULT_ENERGY_PRICE))
         /\ gasPrice' = [time |-> now, value |-> SomeBig(task'[i].price)]
         /\ energyFactors' = energyFactors
    ELSE /\ task'[i].factor = EnergyFactorOf(task'[i].reported)
         /\ task'[i].addr \in DOMAIN energyFactors'
         /\ energyFactors'[task'[i].addr] =
                [time |-> now, value |-> task'[i].factor]
         /\ gasPrice' = gasPrice

\* C24 as stated: every call that returns without a request returns a
\* cached value younger than its time to live; every other call makes one
\* request and its answer overwrites the entry with the present time.
C24_CachedOrFetched ==
    [][\A i \in DOMAIN task :
          /\ ReturnedAtOnce(i) => ServedFromCache(i)
          /\ CallStep(i) /\ ~ReturnedAtOnce(i) => WentToFetch(i)
          /\ AnswerStep(i) => StoredFresh(i)]_vars

\* C24: over any interleaving of two calls and the clock, a call that
\* returns without a request returns a cached value younger than its time
\* to live, or is getEnergyFactor('') returning the maximum factor; every
\* other call makes exactly one request, and its answer is what the call
\* returns and overwrites the entry with the present time.
C24_CachedFetchedOrCreation ==
    [][\A i \in DOMAIN task :
          /\ ReturnedAtOnce(i) => ServedFromCache(i) \/ CreationDefault(i)
          /\ CallStep(i) /\ ~ReturnedAtOnce(i) => WentToFetch(i)
          /\ AnswerStep(i) => StoredFresh(i)]_vars

\* C24 witness: the gas price one call fetched at time 0 is served from the
\* cache to the other call one millisecond before it expires.
C24_Witness ==
    /\ now = 15 * SECOND - 1
    /\ gasPrice = [time |-> 0, value |-> SomeBig(Big(420))]
    /\ task[1].pc = "done" /\ task[1].kind = "getGasPrice"
    /\ task[1].asked = <<>> /\ task[1].price = Big(420)
    /\ task[2].pc = "done" /\ task[2].kind = "getGasPrice"
    /\ task[2].asked = <<"eth_gasPrice">> /\ task[2].price = Big(420)


\* The steps of a submission, in the order of the code.
StepOrder == <<"build", "sign", "broadcast", "sleep", "lookup", "buildWait">>
Submitting == op.path \in {"create", "sendTrx"}
Times(ev) == Cardinality({i \in 1..Len(op.log) : op.log[i] = ev})

\* C25: in create and in sendTrx the steps taken are always a beginning of
\* build, sign, broadcast, grace sleep, lookup, wait closure; what create
\* hands to the native builder has neither method nor data; the sleep is
\* started only on a broadcast response with a truthy result and the lookup
\* only after the whole five seconds, for that response's hash; and a
\* response is returned only with all six steps taken and a closure, not
\* yet called, built for the hash of the broadcast transaction.
C25_StepsInOrder ==
    Submitting =>
        /\ Len(op.log) <= Len(StepOrder)
        /\ op.log = SubSeq(StepOrder, 1, Len(op.log))
        /\ op.path = "create" /\ Logged("build") =>
               /\ op.built.fn = "createSmartContract"
               /\ op.built.tx.method = "absent"
               /\ op.built.tx.data = "absent"
        /\ Logged("sleep") =>
               /\ op.response # NoResponse /\ ~LacksResult(op.response)
               /\ op.sleptMs = 5 * SECOND
        /\ ~Logged("sleep") => op.sleptMs = 0
        /\ Logged("lookup") =>
               /\ Logged("sleep")
               /\ op.looked = ensure0x(Hash(op.response.txid))
        /\ op.outcome.kind = "response" =>
               /\ op.log = StepOrder
               /\ op.outcome.hash = op.response.txid
               /\ op.outcome.wait.pc = "idle"
               /\ op.outcome.wait.hash = Hash(op.response.txid)

\* C25 witness: a sendTrx has gone through all six steps and returned its
\* response.
C25_Witness ==
    /\ op.path = "sendTrx"
    /\ op.entry = "Provider.sendTrx"
    /\ op.outcome.kind = "response"
    /\ op.sleptMs = 5 * SECOND
    /\ op.log = StepOrder

\* C26 as stated: a submission broadcasts at most once and looks the
\* transaction up at most once, and a lookup that fails ends the call with
\* the lookup error of the native client, TronWebGetTransactionError.
C26_LookupFailureIsFetchError ==
    Submitting =>
        /\ Times("broadcast") <= 1
        /\ Times("lookup") <= 1
        /\ Logged("lookup") /\ op.pc = "done" =>
               op.outcome.kind \in {"response", "TronWebGetTransactionError"}

\* C28: once create has run on a request object, the object has neither
\* method nor data from then on, whatever became of the call, and every
\* later Signer.sendTransaction of that object goes to the base submission
\* and starts no native build.
C28_CreateStripsInPlace ==
    /\ [](op.path = "create" =>
              [](reqObj.method = "absent" /\ reqObj.data = "absent"))
    /\ [][SignerSendStep /\ reqObj.method = "absent" =>
              /\ op'.path = "base"
              /\ op'.log = <<"base">>
              /\ op'.built = NoBuild
              /\ reqObj' = reqObj]_vars

\* C28 witness: the request was a create request; after a first call, the
\* second submission of the same object to the signer went the base way.
C28_Witness ==
    /\ op.n = 2
    /\ op.entry = "Signer.sendTransaction"
    /\ op.path = "base"
    /\ reqObj.method = "absent" /\ reqObj.data = "absent"
    /\ reqObj.name = "Token"


\* The polls a call has issued, as its requests show them.
PollsAsked(w) ==
    Cardinality({i \in 1..Len(w.asked) : w.asked[i].call = "getTransaction"})

\* C27: each wait call polls one request at a time: a poll is out only
\* after as many sleeps as polls, with every earlier poll answered, and a
\* sleep or the receipt request only with no poll out; every request of a
\* call is for its own transaction; its sleeps, polls and result follow
\* from its own target, counts and receipt; and a step of one call leaves
\* every other call as it was.
C27_SequentialAndIndependent ==
    /\ [](\A c \in DOMAIN wt :
            LET w == wt[c] IN
            /\ \A i \in 1..Len(w.asked) : w.asked[i].hash = ensure0x(w.hash)
            /\ PollsAsked(w) = w.polls
            /\ w.pc = "idle" => w.observed = <<>> /\ w.asked = <<>>
            /\ w.pc = "polling" =>
                   /\ w.sleeps = w.polls
                   /\ Len(w.observed) = w.polls
                   /\ w.asked[Len(w.asked)].call = "getTransaction"
            /\ w.pc \in {"sleeping", "receipt"} => Len(w.observed) = w.polls + 1
            /\ w.pc = "sleeping" => w.sleeps = w.polls + 1
            /\ w.outcome.kind = "returned" =>
                   /\ w.outcome.receipt = w.fetched
                   /\ w.fetched.transactionHash = ensure0x(w.hash)
                   /\ w.sleeps = w.polls
                   /\ w.sleeps = (IF Truthy(w.target)
                                  THEN FirstReached(w.observed, w.target.n)
                                  ELSE 0))
    /\ [][\A c \in DOMAIN wt, d \in DOMAIN wt :
             c # d /\ wt'[c] # wt[c] => wt'[d] = wt[d]]_vars

\* C27 witness: two calls in flight, the first with its second poll out
\* while the second sleeps before its second poll.
C27_Witness ==
    /\ wt[1].pc = "polling" /\ wt[1].polls = 2
    /\ wt[2].pc = "sleeping" /\ wt[2].polls = 1
    /\ wt[1].observed = <<0, 1>>
    /\ wt[2].observed = <<0, 2>>


\* C29: a getGasPrice call that finds no fresh price asks the node itself,
\* whether or not another call's request is out; the answer to a call's
\* request is what that call returns (the default price for an empty
\* answer) and replaces the cached price, whoever stored it, with the
\* present time; and the cache's timestamp never goes down.
C29_OverlappingPriceQueries ==
    [][/\ \A i \in DOMAIN task :
            /\ CallStep(i) /\ task'[i].kind = "getGasPrice" /\ ~GasPriceFresh =>
                   /\ task'[i].pc = "eth_gasPrice"
                   /\ task'[i].asked = <<"eth_gasPrice">>
                   /\ \A j \in DOMAIN task \ {i} : task'[j] = task[j]
            /\ AnswerStep(i) /\ task[i].kind = "getGasPrice" =>
                   /\ task'[i].price =
                          (IF task'[i].fetched.given THEN task'[i].fetched.v
                           ELSE Big(DEFAULT_ENERGY_PRICE))
                   /\ gasPrice'.value = SomeBig(task'[i].price)
                   /\ gasPrice'.time = now
                   /\ \A j \in DOMAIN task \ {i} : task'[j] = task[j]
       /\ gasPrice'.time >= gasPrice.time]_vars

\* C29 witness: two calls were in flight together (the second was made
\* before the first one's answer, no time having passed), each asked the
\* node, each returned its own price, and the cache holds one of them.
C29_Witness ==
    /\ now = 0
    /\ \A i \in {1, 2} :
          /\ task[i].pc = "done" /\ task[i].kind = "getGasPrice"
          /\ task[i].asked = <<"eth_gasPrice">>
    /\ task[1].price = Big(420)
    /\ task[2].price = Big(1000)
    /\ gasPrice = [time |-> 0, value |-> SomeBig(Big(1000))]


\* The request of cache read i is rejected in this step.
RejectStep(i) ==
    /\ task[i].pc \in {"eth_gasPrice", "getcontractinfo"}
    /\ task'[i].pc = "done"
    /\ task'[i].outcome = "error"

Unsigned == op.path = "sendTrx" /\ op.from \notin DOMAIN signer

\* C31: a sendTrx whose from address has no registered signer never signs,
\* broadcasts, sleeps or looks anything up, and returns no response; it
\* fails with the no-signer error exactly when the native builder, asked for
\* the transfer, has answered (otherwise the failure is the conversion's or
\* the builder's own, before that); and the registry stays as it was.
C31_NoSignerAfterBuild ==
    /\ [](Unsigned =>
            /\ ~Logged("sign") /\ ~Logged("broadcast")
            /\ ~Logged("sleep") /\ ~Logged("lookup") /\ ~Logged("buildWait")
            /\ op.sleptMs = 0
            /\ op.response = NoResponse
            /\ op.pc \in {"building", "done"}
            /\ op.pc = "done" =>
                   /\ op.outcome.kind \in {"NoSigner", "NativeError", "NumericFault"}
                   /\ op.outcome.kind = "NoSigner" =>
                          /\ op.log = <<"build">>
                          /\ op.built.fn = "sendTrx"
                          /\ op.built.from = toHex(op.from)
                   /\ op.outcome.kind = "NumericFault" => op.log = <<>>)
    /\ [][Unsigned /\ op.pc = "building" /\ op'.pc = "done" =>
             /\ op'.outcome.kind \in {"NoSigner", "NativeError"}
             /\ signer' = signer
             /\ reg' = reg]_vars
    /\ [][Unsigned => signer' = signer /\ reg' = reg]_vars

\* C31 witness: sendTrx from the address of a key the provider was not
\* given has failed with the no-signer error with only the build done.
C31_Witness ==
    /\ op.entry = "Provider.sendTrx"
    /\ op.path = "sendTrx"
    /\ op.from = Address("k2")
    /\ op.from \notin DOMAIN signer
    /\ op.pc = "done"
    /\ op.outcome.kind = "NoSigner"
    /\ op.log = <<"build">>

====
